---- MODULE Spec2Model ----
(***************************************************************************)
(* Model of the request processor and the refresh task of the gdcf crate   *)
(* (src/gdcf/src/lib.rs): Gdcf::process, Gdcf::refresh, the future that    *)
(* process builds, and the cache and API client they talk to.              *)
(***************************************************************************)
EXTENDS Integers, Sequences, FiniteSets, TLC

(* ------------------------------ bounds --------------------------------- *)

\* number of process / refresh calls one behaviour makes
MaxCalls == 2
\* the clock runs from 0 to MaxTime
MaxTime == 1
\* longest list of secondaries in a Response::More
MaxExcess == 2

\* request fingerprints, ids of creators and songs, configured expiries
ReqIds == {1, 2}
SecIds == {1}
TTLs == {0, 1}

Slots == 1..MaxCalls

(* ------------------------------ cache ---------------------------------- *)

\* CacheEntry<T, M>: Missing | Cached(T, M) | MarkedAbsent(M) | DeducedAbsent
Missing == [tag |-> "Missing", val |-> 0, at |-> 0]
Cached(v, t) == [tag |-> "Cached", val |-> v, at |-> t]
MarkedAbsent(t) == [tag |-> "MarkedAbsent", val |-> 0, at |-> t]
DeducedAbsent == [tag |-> "DeducedAbsent", val |-> 0, at |-> 0]

\* the key a request is cached under: request.key() / cache.hash(&request)
ReqKey(r) == <<"request", r>>
CreatorKey(id) == <<"creator", id>>
SongKey(id) == <<"song", id>>

ReqKeys == {ReqKey(r) : r \in ReqIds}
SecKeys == {CreatorKey(i) : i \in SecIds} \cup {SongKey(i) : i \in SecIds}
Keys == ReqKeys \cup SecKeys

\* Secondary: NewgroundsSong(song) | Creator(creator) | MissingCreator(id) | MissingNewgroundsSong(id)
SecondaryTags == {"NewgroundsSong", "Creator", "MissingCreator", "MissingNewgroundsSong"}
Secondary == [tag : SecondaryTags, id : SecIds]

\* What the client answers: Response::Exact(result), Response::More(result,
\* excess) with n = excess.len(), or an error that is NoData (is_no_result()
\* is true) or any other ApiError. The objects of excess are drawn one by one
\* as the loop over excess reaches them.
NoResponse == [tag |-> "None", n |-> 0]
Exact == [tag |-> "Exact", n |-> 0]
More(n) == [tag |-> "More", n |-> n]
NoData == [tag |-> "NoData", n |-> 0]
ApiErr == [tag |-> "ApiErr", n |-> 0]

Responses == {Exact, NoData, ApiErr} \cup {More(n) : n \in 0..MaxExcess}

\* the payload the client returns to the call in slot s: every answer of the
\* server is told apart from the others
Payload(s) == s

VARIABLES
    cache,      \* the shared cache: key -> CacheEntry
    now,        \* the clock the entries' meta is stamped with
    ttl,        \* the expiry the cache was configured with
    calls,      \* one record per process / refresh call and the future it returned
    nCalls,     \* number of calls made so far
    makeCalls,  \* request -> number of ApiClient::make invocations
    run         \* the operation built on top of process and refresh that a
                \* specification follows (an upgrade, a listing, a stream)

vars == <<cache, now, ttl, calls, nCalls, makeCalls, run>>

\* no operation on top of process and refresh is followed
Idle == [op |-> "idle"]

\* a slot no call has used yet
Unused ==
    [req |-> 0, force |-> FALSE, kind |-> "unused", lookupOk |-> TRUE,
     outcome |-> "none", entry |-> Missing, expired |-> FALSE, pc |-> "none", resp |-> NoResponse,
     idx |-> 0, result |-> Missing, err |-> "none", writes |-> 0, marked |-> FALSE]

\* mutant of is_expired: an entry expires the moment its lifetime is reached
is_expiredAtBoundary(e, t, life) ==
    CASE e.tag = "Missing" -> TRUE
      [] e.tag = "DeducedAbsent" -> FALSE
      [] OTHER -> e.at + life <= t

\* CacheEntry::is_expired: the meta's stored_at plus the configured expiry lies in the past
is_expired(e, t, life) ==
    CASE e.tag = "Missing" -> TRUE
      [] e.tag = "DeducedAbsent" -> FALSE
      [] OTHER -> e.at + life < t

\* Cache::lookup_request
lookup_request(c, r) == c[ReqKey(r)]

\* Store::store: upsert of the value under the key, stamped with the current time
store(c, k, v, t) == [c EXCEPT ![k] = Cached(v, t)]

\* Store::mark_absent: the key's record becomes a tombstone
mark_absent(c, k, t) == [c EXCEPT ![k] = MarkedAbsent(t)]

\* mutant of SecondaryKey: songs and creators keyed by the bare id
SecondaryKeyById(o) == CreatorKey(o.id)

\* the key a secondary object is stored under
SecondaryKey(o) ==
    IF o.tag \in {"Creator", "MissingCreator"} THEN CreatorKey(o.id) ELSE SongKey(o.id)

\* mutant of store_secondary: a Missing* secondary evicts a cached object and
\* tombstones only a key that holds no object
store_secondaryEvicts(c, o, v, t) ==
    IF o.tag \in {"NewgroundsSong", "Creator"}
    THEN store(c, SecondaryKey(o), v, t)
    ELSE IF c[SecondaryKey(o)].tag = "Cached"
         THEN [c EXCEPT ![SecondaryKey(o)] = Missing]
         ELSE mark_absent(c, SecondaryKey(o), t)

\* the write one secondary causes (lib.rs 253-258, store_secondary of lib.rs 330)
store_secondary(c, o, v, t) ==
    IF o.tag \in {"NewgroundsSong", "Creator"}
    THEN store(c, SecondaryKey(o), v, t)
    ELSE mark_absent(c, SecondaryKey(o), t)

Init ==
    /\ ttl \in TTLs
    /\ now = 0
    /\ cache = [k \in Keys |-> Missing]
    /\ calls = [s \in Slots |-> Unused]
    /\ nCalls = 0
    /\ makeCalls = [r \in ReqIds |-> 0]
    /\ run = Idle

\* mutants of ProcessOutcome: freshness ignored; a stale tombstone dropped;
\* the Missing arm forgotten
ProcessOutcomeNeverFresh(e, t, life) ==
    IF e.tag = "Missing" THEN "Uncached" ELSE "Outdated"

ProcessOutcomeDropsTombstone(e, t, life) ==
    IF e.tag # "Cached" THEN "Uncached"
    ELSE IF is_expired(e, t, life) THEN "Outdated"
    ELSE "UpToDate"

ProcessOutcomeNoMissingArm(e, t, life) ==
    IF is_expired(e, t, life) THEN "Outdated" ELSE "UpToDate"

\* mutant of ProcessOutcome: a miss handed back as the entry that was found
ProcessOutcomeReturnsMiss(e, t, life) ==
    IF e.tag # "Missing" /\ is_expired(e, t, life) THEN "Outdated" ELSE "UpToDate"

\* the decision of Gdcf::process on the looked-up entry (lib.rs 299-315, 341-344)
ProcessOutcome(e, t, life) ==
    IF e.tag = "Missing" THEN "Uncached"
    ELSE IF is_expired(e, t, life) THEN "Outdated"
    ELSE "UpToDate"

\* mutant of ProcessResult: a failed lookup taken for a miss
ProcessResultSwallowsError(lookupOk, e, t, life) ==
    IF ~lookupOk THEN "Uncached" ELSE ProcessOutcome(e, t, life)

\* what Gdcf::process returns: the ? of lib.rs 299 returns the error of the
\* lookup, otherwise the entry decides
ProcessResult(lookupOk, e, t, life) ==
    IF ~lookupOk THEN "CacheError" ELSE ProcessOutcome(e, t, life)

\* mutant of MakeAfterProcess: a request whose fingerprint was already asked
\* for shares the earlier future
MakeAfterProcessDedup(m, r, out) ==
    IF out \in {"Uncached", "Outdated"} /\ m[r] = 0 THEN [m EXCEPT ![r] = @ + 1] ELSE m

\* ApiClient::make is invoked while the future is built (lib.rs 321), that is
\* whenever process gets past the lookup and the early return
MakeAfterProcess(m, r, out) ==
    IF out \in {"Uncached", "Outdated"} THEN [m EXCEPT ![r] = @ + 1] ELSE m

\* mutant of AfterResponse: every error of the client is recovered into a tombstone
AfterResponseMarksAll(kind, resp) ==
    CASE resp.tag = "Exact" -> "primary"
      [] resp.tag = "More" -> IF resp.n = 0 THEN "primary" ELSE "sec"
      [] OTHER -> IF kind = "refresh" THEN "mark" ELSE "failed"

\* mutant of AfterResponse: a page without secondaries resolves without its store
AfterResponseForgetsStore(kind, resp) ==
    CASE resp.tag = "Exact" -> "primary"
      [] resp.tag = "More" -> IF resp.n = 0 THEN "done" ELSE "sec"
      [] resp.tag = "NoData" -> IF kind = "refresh" THEN "mark" ELSE "failed"
      [] OTHER -> "failed"

\* where a future continues once the client answered: the and_then closure
\* of both futures, and the or_else closure that only Gdcf::refresh has
AfterResponse(kind, resp) ==
    CASE resp.tag = "Exact" -> "primary"
      [] resp.tag = "More" -> IF resp.n = 0 THEN "primary" ELSE "sec"
      [] resp.tag = "NoData" -> IF kind = "refresh" THEN "mark" ELSE "failed"
      [] OTHER -> "failed"

\* mutant of ResponseError: every error of the client reported as NoData
ResponseErrorConfused(kind, resp) ==
    CASE resp.tag \in {"NoData", "ApiErr"} /\ kind # "refresh" -> "ApiNoData"
      [] resp.tag = "ApiErr" -> "ApiNoData"
      [] OTHER -> "none"

\* the error a future fails with when the client answered with an error
ResponseError(kind, resp) ==
    CASE resp.tag = "NoData" /\ kind # "refresh" -> "ApiNoData"
      [] resp.tag = "ApiErr" -> "ApiOther"
      [] OTHER -> "none"

\* mutant of AfterSecondary: the loop over excess left after its first round
AfterSecondaryStopsEarly(resp, i) == "primary"

\* the loop over excess: the primary is stored once the last secondary is
AfterSecondary(resp, i) ==
    IF i < resp.n THEN "sec" ELSE "primary"

\* what a future resolves to after the primary store: Gdcf::refresh maps the
\* meta into CacheEntry::Cached, the future of Gdcf::process maps to the value
Resolved(kind, v, t) ==
    IF kind = "refresh" THEN Cached(v, t) ELSE [tag |-> "Value", val |-> v, at |-> 0]

\* Gdcf::process (lib.rs 283-345)
process(r, force, lookupOk) ==
    /\ nCalls < MaxCalls
    /\ nCalls' = nCalls + 1
    /\ LET s == nCalls + 1
           e == IF lookupOk THEN lookup_request(cache, r) ELSE Missing
           out == ProcessResult(lookupOk, e, now, ttl)
       IN  /\ calls' = [calls EXCEPT ![s] =
                   [Unused EXCEPT !.req = r, !.force = force, !.kind = "process",
                                  !.lookupOk = lookupOk,
                                  !.outcome = out,
                                  !.entry = IF out = "CacheError" THEN Missing ELSE e,
                                  !.expired = is_expired(e, now, ttl),
                                  !.err = IF out = "CacheError" THEN "Cache" ELSE "none",
                                  !.pc = IF out \in {"Uncached", "Outdated"} THEN "api" ELSE "none"]]
           /\ makeCalls' = MakeAfterProcess(makeCalls, r, out)
    /\ UNCHANGED <<cache, now, ttl, run>>

\* Gdcf::refresh (lib.rs 229-243): the client is asked at once
refresh(r) ==
    /\ nCalls < MaxCalls
    /\ nCalls' = nCalls + 1
    /\ calls' = [calls EXCEPT ![nCalls + 1] =
            [Unused EXCEPT !.req = r, !.kind = "refresh", !.outcome = "Refresh", !.pc = "api"]]
    /\ makeCalls' = [makeCalls EXCEPT ![r] = @ + 1]
    /\ UNCHANGED <<cache, now, ttl, run>>

\* the client's future resolves (lib.rs 241-245, 269-280, 321-322)
ApiResolve(s, resp) ==
    /\ calls[s].pc = "api"
    /\ calls' = [calls EXCEPT ![s].resp = resp,
                              ![s].idx = 1,
                              ![s].pc = AfterResponse(calls[s].kind, resp),
                              ![s].err = ResponseError(calls[s].kind, resp)]
    /\ UNCHANGED <<cache, now, ttl, nCalls, makeCalls, run>>

\* mutant of StoreSecondary: a store that fails gives up what the task wrote
\* before it
StoreSecondaryRollsBack(s, o, ok) ==
    /\ calls[s].pc = "sec"
    /\ LET c == calls[s]
       IN  IF ok
           THEN /\ cache' = store_secondary(cache, o, Payload(s), now)
                /\ calls' = [calls EXCEPT ![s].idx = c.idx + 1,
                                          ![s].pc = AfterSecondary(c.resp, c.idx),
                                          ![s].writes = c.writes + 1]
           ELSE /\ calls' = [calls EXCEPT ![s].pc = "failed", ![s].err = "Cache"]
                /\ cache' = [k \in Keys |-> IF k \in SecKeys THEN Missing ELSE cache[k]]
    /\ UNCHANGED <<now, ttl, nCalls, makeCalls, run>>

\* one round of the loop over excess (lib.rs 252-260, 329-331)
StoreSecondary(s, o, ok) ==
    /\ calls[s].pc = "sec"
    /\ LET c == calls[s]
       IN  IF ok
           THEN /\ cache' = store_secondary(cache, o, Payload(s), now)
                /\ calls' = [calls EXCEPT ![s].idx = c.idx + 1,
                                          ![s].pc = AfterSecondary(c.resp, c.idx),
                                          ![s].writes = c.writes + 1]
           ELSE /\ calls' = [calls EXCEPT ![s].pc = "failed", ![s].err = "Cache"]
                /\ UNCHANGED cache
    /\ UNCHANGED <<now, ttl, nCalls, makeCalls, run>>

\* mutant of StorePrimary: the entries handed out for the request are
\* rewritten along with the record in the cache
StorePrimaryInPlace(s, ok) ==
    /\ calls[s].pc = "primary"
    /\ LET c == calls[s]
       IN  IF ok
           THEN /\ cache' = store(cache, ReqKey(c.req), Payload(s), now)
                /\ calls' = [x \in Slots |->
                        IF x = s
                        THEN [c EXCEPT !.pc = "done",
                                       !.result = Resolved(c.kind, Payload(s), now),
                                       !.writes = c.writes + 1,
                                       !.entry = IF c.outcome = "Outdated"
                                                 THEN Cached(Payload(s), now) ELSE @]
                        ELSE IF calls[x].req = c.req /\ calls[x].outcome = "Outdated"
                        THEN [calls[x] EXCEPT !.entry = Cached(Payload(s), now)]
                        ELSE calls[x]]
           ELSE /\ calls' = [calls EXCEPT ![s].pc = "failed", ![s].err = "Cache"]
                /\ UNCHANGED cache
    /\ UNCHANGED <<now, ttl, nCalls, makeCalls, run>>

\* the store of the requested object (lib.rs 246-250, 262-265, 323-327, 333-336)
StorePrimary(s, ok) ==
    /\ calls[s].pc = "primary"
    /\ LET c == calls[s]
       IN  IF ok
           THEN /\ cache' = store(cache, ReqKey(c.req), Payload(s), now)
                /\ calls' = [calls EXCEPT ![s].pc = "done",
                                          ![s].result = Resolved(c.kind, Payload(s), now),
                                          ![s].writes = c.writes + 1]
           ELSE /\ calls' = [calls EXCEPT ![s].pc = "failed", ![s].err = "Cache"]
                /\ UNCHANGED cache
    /\ UNCHANGED <<now, ttl, nCalls, makeCalls, run>>

\* mutant of MarkAbsent: the tombstone written only where no value is held
MarkAbsentKeepsValue(s, ok) ==
    /\ calls[s].pc = "mark"
    /\ LET c == calls[s]
       IN  IF ok
           THEN /\ cache' = IF cache[ReqKey(c.req)].tag = "Cached" THEN cache
                            ELSE mark_absent(cache, ReqKey(c.req), now)
                /\ calls' = [calls EXCEPT ![s].pc = "done",
                                          ![s].result = MarkedAbsent(now),
                                          ![s].writes = c.writes + 1,
                                          ![s].marked = TRUE]
           ELSE /\ calls' = [calls EXCEPT ![s].pc = "failed", ![s].err = "Cache",
                                          ![s].marked = TRUE]
                /\ UNCHANGED cache
    /\ UNCHANGED <<now, ttl, nCalls, makeCalls, run>>

\* the or_else closure of Gdcf::refresh on a NoData error (lib.rs 269-277)
MarkAbsent(s, ok) ==
    /\ calls[s].pc = "mark"
    /\ LET c == calls[s]
       IN  IF ok
           THEN /\ cache' = mark_absent(cache, ReqKey(c.req), now)
                /\ calls' = [calls EXCEPT ![s].pc = "done",
                                          ![s].result = MarkedAbsent(now),
                                          ![s].writes = c.writes + 1,
                                          ![s].marked = TRUE]
           ELSE /\ calls' = [calls EXCEPT ![s].pc = "failed", ![s].err = "Cache",
                                          ![s].marked = TRUE]
                /\ UNCHANGED cache
    /\ UNCHANGED <<now, ttl, nCalls, makeCalls, run>>

\* time passes
Tick ==
    /\ now < MaxTime
    /\ now' = now + 1
    /\ UNCHANGED <<cache, ttl, calls, nCalls, makeCalls, run>>

Next ==
    \/ \E r \in ReqIds, force \in BOOLEAN, ok \in BOOLEAN : process(r, force, ok)
    \/ \E r \in ReqIds : refresh(r)
    \/ \E s \in Slots, resp \in Responses : ApiResolve(s, resp)
    \/ \E s \in Slots, o \in Secondary, ok \in BOOLEAN : StoreSecondary(s, o, ok)
    \/ \E s \in Slots, ok \in BOOLEAN : StorePrimary(s, ok)
    \/ \E s \in Slots, ok \in BOOLEAN : MarkAbsent(s, ok)
    \/ Tick

Spec == Init /\ [][Next]_vars

(* ------------- calls on a cache that already holds an entry ------------- *)

\* the cache is a database that outlives the Gdcf built on it: request 1 was
\* cached by an earlier run
InitHeld ==
    /\ ttl \in TTLs
    /\ now = 0
    /\ cache = [k \in Keys |-> IF k = ReqKey(1) THEN Cached(0, 0) ELSE Missing]
    /\ calls = [s \in Slots |-> Unused]
    /\ nCalls = 0
    /\ makeCalls = [r \in ReqIds |-> 0]
    /\ run = Idle

SpecHeld == InitHeld /\ [][Next]_vars

(* --------------------- a refresh task that is dropped -------------------- *)

\* the future refresh returns owns no Drop implementation: dropping it runs no
\* code, the task stops where it was suspended
DropRollsBack(s) ==
    /\ calls[s].kind = "refresh"
    /\ calls[s].pc \in {"api", "sec", "primary", "mark"}
    /\ calls' = [calls EXCEPT ![s].pc = "dropped"]
    /\ cache' = [k \in Keys |->
                    IF cache[k].tag = "Cached" /\ cache[k].val = Payload(s)
                    THEN Missing ELSE cache[k]]
    /\ UNCHANGED <<now, ttl, nCalls, makeCalls, run>>

Drop(s) ==
    /\ calls[s].kind = "refresh"
    /\ calls[s].pc \in {"api", "sec", "primary", "mark"}
    /\ calls' = [calls EXCEPT ![s].pc = "dropped"]
    /\ UNCHANGED <<cache, now, ttl, nCalls, makeCalls, run>>

NextCancel ==
    \/ \E r \in ReqIds : refresh(r)
    \/ \E s \in Slots, resp \in Responses : ApiResolve(s, resp)
    \/ \E s \in Slots, o \in Secondary, ok \in BOOLEAN : StoreSecondary(s, o, ok)
    \/ \E s \in Slots, ok \in BOOLEAN : StorePrimary(s, ok)
    \/ \E s \in Slots, ok \in BOOLEAN : MarkAbsent(s, ok)
    \/ \E s \in Slots : Drop(s)
    \/ Tick

SpecCancel == Init /\ [][NextCancel]_vars

(* ------------- a refresh task run to its end, and run again ------------- *)

\* the lists of secondary objects a response may carry
ExcessLists == UNION {[1..n -> Secondary] : n \in 0..MaxExcess}

\* the loop over excess of Gdcf::refresh (lib.rs 252-260), from its i-th round on
RECURSIVE StoreExcess(_, _, _, _, _)
StoreExcess(c, excess, i, v, t) ==
    IF i > Len(excess) THEN c
    ELSE StoreExcess(store_secondary(c, excess[i], v, t), excess, i + 1, v, t)

\* the cache a future of Gdcf::refresh leaves when no cache operation fails
\* (lib.rs 241-280): resp is the answer of the client, excess the secondaries
\* of a Response::More, v the object the answer carries
RefreshTask(c, r, resp, excess, v, t) ==
    LET to == AfterResponse("refresh", resp)
    IN  CASE to = "primary" -> store(c, ReqKey(r), v, t)
          [] to = "sec" -> store(StoreExcess(c, excess, 1, v, t), ReqKey(r), v, t)
          [] to = "mark" -> mark_absent(c, ReqKey(r), t)
          [] OTHER -> c

\* a cache without its meta: per key, whether it is present and with which
\* value or tombstone
ModuloMeta(c) == [k \in Keys |-> [tag |-> c[k].tag, val |-> c[k].val]]

\* the entries a key can hold before the task runs
Entries == {Missing, Cached(0, 0), MarkedAbsent(0)}

InitIdem ==
    /\ ttl \in TTLs
    /\ now = 0
    /\ cache \in [Keys -> Entries]
    /\ calls = [s \in Slots |-> Unused]
    /\ nCalls = 0
    /\ makeCalls = [r \in ReqIds |-> 0]
    /\ \E r \in ReqIds, resp \in Responses, excess \in ExcessLists :
            /\ Len(excess) = resp.n
            /\ run = [op |-> "refresh", req |-> r, resp |-> resp, excess |-> excess,
                      done |-> 0, once |-> ModuloMeta(cache)]

\* the task runs for the first time
RefreshOnce ==
    /\ run.done = 0
    /\ cache' = RefreshTask(cache, run.req, run.resp, run.excess, Payload(1), now)
    /\ run' = [run EXCEPT !.done = 1, !.once = ModuloMeta(cache')]
    /\ makeCalls' = [makeCalls EXCEPT ![run.req] = @ + 1]
    /\ UNCHANGED <<now, ttl, calls, nCalls>>

\* the task runs again, the client answering as it did the first time
RefreshAgain ==
    /\ run.done = 1
    /\ cache' = RefreshTask(cache, run.req, run.resp, run.excess, Payload(1), now)
    /\ run' = [run EXCEPT !.done = 2]
    /\ makeCalls' = [makeCalls EXCEPT ![run.req] = @ + 1]
    /\ UNCHANGED <<now, ttl, calls, nCalls>>

NextIdem ==
    \/ RefreshOnce
    \/ RefreshAgain
    \/ Tick

SpecIdem == InitIdem /\ [][NextIdem]_vars

(* ----------------- the Upgrade edges of upgrade/level.rs ----------------- *)

\* an Option is the empty set (None) or a singleton (Some)
None == {}
Some(x) == {x}

\* the value inside a Some
Unwrap(o) == CHOOSE x \in o : TRUE

\* ids and field values the objects are built from
LevelIds == {1}
UserIds == {1}
SongIds == {1}
AccountIds == {7}
Rests == {0, 1}
Datas == {0, 1}

\* the seven implementations of Upgrade
Edges ==
    {"PartialLevel->Level", "Level song", "PartialLevel song", "Level creator",
     "PartialLevel creator", "PartialLevel user", "Level user"}

\* the values of a song slot and of a creator slot, per type parameter
OptSongIds == {None} \cup {Some(i) : i \in SongIds}
OptSongs == {None} \cup {Some([song_id |-> i]) : i \in SongIds}
Creators == [user_id : UserIds, account_id : {None} \cup {Some(a) : a \in AccountIds}]
OptCreators == {None} \cup {Some(c) : c \in Creators}
OptUsers == {None} \cup {Some([account_id |-> a]) : a \in AccountIds}

\* PartialLevel<Song, User>; rest stands for the fields no edge reads or replaces
PartialLevels(SongSlot, CreatorSlot) ==
    [level_id : LevelIds, rest : Rests, creator : CreatorSlot, custom_song : SongSlot]

\* Level<Song, User>; level_data stands for the fields besides base
Levels(SongSlot, CreatorSlot) ==
    [base : PartialLevels(SongSlot, CreatorSlot), level_data : Datas]

\* the values an edge upgrades (Self)
Froms(edge) ==
    CASE edge = "PartialLevel->Level" -> PartialLevels(OptSongIds, UserIds)
      [] edge = "Level song" -> Levels(OptSongIds, UserIds)
      [] edge = "PartialLevel song" -> PartialLevels(OptSongIds, UserIds)
      [] edge = "Level creator" -> Levels(OptSongs, UserIds)
      [] edge = "PartialLevel creator" -> PartialLevels(OptSongs, UserIds)
      [] edge = "PartialLevel user" -> PartialLevels(OptSongs, OptCreators)
      [] edge = "Level user" -> Levels(OptSongs, OptCreators)

\* the values an edge splices in (Upgrade::Upgrade)
Upgrades(edge) ==
    CASE edge = "PartialLevel->Level" -> Levels(OptSongIds, UserIds)
      [] edge \in {"Level song", "PartialLevel song"} -> OptSongs
      [] edge \in {"Level creator", "PartialLevel creator"} -> OptCreators
      [] edge \in {"PartialLevel user", "Level user"} -> OptUsers

\* change_partial_level_song (level.rs 261-324)
change_partial_level_song(partial_level, new_song) ==
    <<[partial_level EXCEPT !.custom_song = new_song], partial_level.custom_song>>

\* change_partial_level_user (level.rs 326-389)
change_partial_level_user(partial_level, new_user) ==
    <<[partial_level EXCEPT !.creator = new_user], partial_level.creator>>

\* change_level_user (level.rs 391-414)
change_level_user(level, new_user) ==
    LET r == change_partial_level_user(level.base, new_user)
    IN  <<[level EXCEPT !.base = r[1]], r[2]>>

\* change_level_song (level.rs 416-439)
change_level_song(level, new_song) ==
    LET r == change_partial_level_song(level.base, new_song)
    IN  <<[level EXCEPT !.base = r[1]], r[2]>>

\* the requests the edges ask for
LevelRequest(id) == [request |-> "LevelRequest", id |-> id]
LevelsBySong(id) == [request |-> "LevelsRequest custom_song", id |-> id]
LevelsByUser(id) == [request |-> "LevelsRequest search", id |-> id]
UserRequest(id) == [request |-> "UserRequest", id |-> id]

\* the partial level the request of an edge is derived from
BaseOf(edge, self) ==
    IF edge \in {"Level song", "Level creator", "Level user"} THEN self.base ELSE self

\* mutant of upgrade_request: a level without a custom song still asks for
\* the song, and a creator without an account for the user
upgrade_requestAlways(edge, self) ==
    LET b == BaseOf(edge, self)
    IN  CASE edge = "PartialLevel->Level" -> Some(LevelRequest(self.level_id))
          [] edge \in {"Level song", "PartialLevel song"} -> Some(LevelsBySong(b.level_id))
          [] edge \in {"Level creator", "PartialLevel creator"} ->
                Some(LevelsByUser(b.creator))
          [] edge \in {"PartialLevel user", "Level user"} ->
                IF b.creator = None THEN None
                ELSE Some(UserRequest(Unwrap(b.creator).user_id))

\* Upgrade::upgrade_request of the seven edges
upgrade_request(edge, self) ==
    LET b == BaseOf(edge, self)
    IN  CASE edge = "PartialLevel->Level" -> Some(LevelRequest(self.level_id))
          [] edge \in {"Level song", "PartialLevel song"} ->
                IF b.custom_song = None THEN None
                ELSE Some(LevelsBySong(Unwrap(b.custom_song)))
          [] edge \in {"Level creator", "PartialLevel creator"} ->
                Some(LevelsByUser(b.creator))
          [] edge \in {"PartialLevel user", "Level user"} ->
                IF b.creator = None THEN None
                ELSE IF Unwrap(b.creator).account_id = None THEN None
                ELSE Some(UserRequest(Unwrap(Unwrap(b.creator).account_id)))

\* mutant of default_upgrade: no edge has a default
default_upgradeNone(edge) == None

\* Upgrade::default_upgrade: only PartialLevel -> Level has none
default_upgrade(edge) ==
    IF edge = "PartialLevel->Level" THEN None ELSE Some(None)

\* Upgrade::upgrade: the upgraded object and the value it replaced
upgrade(edge, self, up) ==
    CASE edge = "PartialLevel->Level" ->
            <<[base |-> self, level_data |-> up.level_data], up.base>>
      [] edge = "Level song" -> change_level_song(self, up)
      [] edge = "PartialLevel song" -> change_partial_level_song(self, up)
      [] edge = "Level creator" -> change_level_user(self, up)
      [] edge = "PartialLevel creator" -> change_partial_level_user(self, up)
      [] edge = "PartialLevel user" -> change_partial_level_user(self, up)
      [] edge = "Level user" -> change_level_user(self, up)

\* Upgrade::downgrade
downgrade(edge, upgraded, down) ==
    CASE edge = "PartialLevel->Level" -> <<down, upgraded>>
      [] edge = "Level song" -> change_level_song(upgraded, down)
      [] edge = "PartialLevel song" -> change_partial_level_song(upgraded, down)
      [] edge = "Level creator" -> change_level_user(upgraded, down)
      [] edge = "PartialLevel creator" -> change_partial_level_user(upgraded, down)
      [] edge = "PartialLevel user" -> change_partial_level_user(upgraded, down)
      [] edge = "Level user" -> change_level_user(upgraded, down)

(* --------------------- UpgradeMode (upgrade/mod.rs) --------------------- *)

\* every request an edge can build from the ids in use
UpRequests ==
    LET ids == LevelIds \cup SongIds \cup UserIds \cup AccountIds
    IN  {LevelRequest(i) : i \in ids} \cup {LevelsBySong(i) : i \in ids}
        \cup {LevelsByUser(i) : i \in ids} \cup {UserRequest(i) : i \in ids}

UpKeys == {ReqKey(q) : q \in UpRequests} \cup SecKeys

\* CacheEntry::value: the object of a Cached entry
entry_value(e) == IF e.tag = "Cached" THEN Some(e.val) ELSE None

\* CacheEntry::is_absent
is_absent(e) == e.tag \in {"MarkedAbsent", "DeducedAbsent"}

\* mutant of EntryToOption: only a miss becomes None, a tombstone is handed
\* on as an object
EntryToOptionOfTombstone(e) == IF e.tag = "Missing" THEN None ELSE Some(e.val)

\* the conversion of a looked-up CacheEntry into an Option
EntryToOption(e) == IF e.tag = "Cached" THEN Some(e.val) ELSE None

\* the key lookup_upgrade reads, for the edges that read the cache
LookupKey(edge, self) ==
    LET b == BaseOf(edge, self)
    IN  CASE edge \in {"Level song", "PartialLevel song"} /\ b.custom_song # None ->
                Some(SongKey(Unwrap(b.custom_song)))
          [] edge \in {"Level creator", "PartialLevel creator"} ->
                Some(CreatorKey(b.creator))
          [] OTHER -> None

\* Upgrade::lookup_upgrade: the value to splice in, or the error of the lookup
\* (ok says whether the lookup of the edges that read the cache succeeds)
lookup_upgrade(edge, self, c, request_result, ok) ==
    LET k == LookupKey(edge, self)
    IN  CASE edge = "PartialLevel->Level" -> [err |-> "none", up |-> Some(request_result)]
          [] edge \in {"PartialLevel user", "Level user"} ->
                [err |-> "none", up |-> Some(Some(request_result))]
          [] k = None -> [err |-> "none", up |-> Some(None)]
          [] ~ok -> [err |-> "Cache", up |-> None]
          [] OTHER -> [err |-> "none", up |-> Some(EntryToOption(c[Unwrap(k)]))]

\* an UpgradeMode, or the error UpgradeMode::new returns; refreshes counts the
\* calls of Gdcf::refresh made besides the call of Gdcf::process
Mode(tag, into, ext, err, refreshes) ==
    [tag |-> tag, into |-> into, ext |-> ext, err |-> err, refreshes |-> refreshes]

NoMode == Mode("none", None, None, "none", 0)

\* mutant of UpgradeMode_cached: the cached mode still refreshes its request
UpgradeMode_cachedRefreshes(edge, to_upgrade, up) ==
    Mode("UpgradeCached", Some(upgrade(edge, to_upgrade, up)[1]), None, "none", 1)

\* UpgradeMode::cached
UpgradeMode_cached(edge, to_upgrade, up) ==
    Mode("UpgradeCached", Some(upgrade(edge, to_upgrade, up)[1]), None, "none", 0)

\* mutant of UpgradeMode_default_upgrade: the request is refreshed instead
UpgradeMode_default_upgradeRefreshes(edge, to_upgrade) ==
    Mode("UpgradeMissing", None, None, "none", 1)

\* UpgradeMode::default_upgrade
UpgradeMode_default_upgrade(edge, to_upgrade) ==
    IF default_upgrade(edge) = None
    THEN Mode("Err", None, None, "ConsistencyAssumptionViolated", 0)
    ELSE UpgradeMode_cached(edge, to_upgrade, Unwrap(default_upgrade(edge)))

\* mutant of UpgradeMode_match: an outdated value is served as if it were
\* up to date, its refresh is not handed out
UpgradeMode_matchServesStale(edge, to_upgrade, c, e, out, ok) ==
    LET absent == e.tag \in {"DeducedAbsent", "MarkedAbsent"}
        looked == lookup_upgrade(edge, to_upgrade, c, e.val, ok)
        again == IF upgrade_request(edge, to_upgrade) = None
                 THEN UpgradeMode_default_upgrade(edge, to_upgrade)
                 ELSE Mode("UpgradeMissing", None, None, "none", 1)
    IN  CASE out = "CacheError" -> Mode("Err", None, None, "Cache", 0)
          [] out = "UpToDate" /\ e.tag = "Missing" -> Mode("Panic", None, None, "unreachable", 0)
          [] out = "Outdated" /\ e.tag = "Missing" -> Mode("Panic", None, None, "unreachable", 0)
          [] out = "UpToDate" /\ absent ->
                IF default_upgrade(edge) # None
                THEN UpgradeMode_cached(edge, to_upgrade, Unwrap(default_upgrade(edge)))
                ELSE again
          [] out = "UpToDate" /\ e.tag = "Cached" ->
                IF looked.err # "none" THEN Mode("Err", None, None, looked.err, 0)
                ELSE UpgradeMode_cached(edge, to_upgrade, Unwrap(looked.up))
          [] out = "Uncached" -> Mode("UpgradeMissing", None, None, "none", 0)
          [] out = "Outdated" /\ absent ->
                IF default_upgrade(edge) # None
                THEN Mode("UpgradeOutdated", None, default_upgrade(edge), "none", 0)
                ELSE again
          [] out = "Outdated" /\ e.tag = "Cached" ->
                IF looked.err # "none" THEN Mode("Err", None, None, looked.err, 0)
                ELSE UpgradeMode_cached(edge, to_upgrade, Unwrap(looked.up))
          [] OTHER -> Mode("Panic", None, None, "unimplemented", 0)

\* mutant of UpgradeMode_match: an absent entry without default is given up
\* on, no refresh is tried
UpgradeMode_matchGivesUp(edge, to_upgrade, c, e, out, ok) ==
    LET absent == e.tag \in {"DeducedAbsent", "MarkedAbsent"}
        looked == lookup_upgrade(edge, to_upgrade, c, e.val, ok)
        again == UpgradeMode_default_upgrade(edge, to_upgrade)
    IN  CASE out = "CacheError" -> Mode("Err", None, None, "Cache", 0)
          [] out = "UpToDate" /\ e.tag = "Missing" -> Mode("Panic", None, None, "unreachable", 0)
          [] out = "Outdated" /\ e.tag = "Missing" -> Mode("Panic", None, None, "unreachable", 0)
          [] out = "UpToDate" /\ absent ->
                IF default_upgrade(edge) # None
                THEN UpgradeMode_cached(edge, to_upgrade, Unwrap(default_upgrade(edge)))
                ELSE again
          [] out = "UpToDate" /\ e.tag = "Cached" ->
                IF looked.err # "none" THEN Mode("Err", None, None, looked.err, 0)
                ELSE UpgradeMode_cached(edge, to_upgrade, Unwrap(looked.up))
          [] out = "Uncached" -> Mode("UpgradeMissing", None, None, "none", 0)
          [] out = "Outdated" /\ absent ->
                IF default_upgrade(edge) # None
                THEN Mode("UpgradeOutdated", None, default_upgrade(edge), "none", 0)
                ELSE again
          [] out = "Outdated" /\ e.tag = "Cached" ->
                IF looked.err # "none" THEN Mode("Err", None, None, looked.err, 0)
                ELSE Mode("UpgradeOutdated", None, looked.up, "none", 0)
          [] OTHER -> Mode("Panic", None, None, "unimplemented", 0)

\* the match of UpgradeMode::new on what Gdcf::process returned (mod.rs 116-163):
\* e is the looked-up entry, out the outcome of process
UpgradeMode_match(edge, to_upgrade, c, e, out, ok) ==
    LET absent == e.tag \in {"DeducedAbsent", "MarkedAbsent"}
        looked == lookup_upgrade(edge, to_upgrade, c, e.val, ok)
        again == IF upgrade_request(edge, to_upgrade) = None
                 THEN UpgradeMode_default_upgrade(edge, to_upgrade)
                 ELSE Mode("UpgradeMissing", None, None, "none", 1)
    IN  CASE out = "CacheError" -> Mode("Err", None, None, "Cache", 0)
          [] out = "UpToDate" /\ e.tag = "Missing" -> Mode("Panic", None, None, "unreachable", 0)
          [] out = "Outdated" /\ e.tag = "Missing" -> Mode("Panic", None, None, "unreachable", 0)
          [] out = "UpToDate" /\ absent ->
                IF default_upgrade(edge) # None
                THEN UpgradeMode_cached(edge, to_upgrade, Unwrap(default_upgrade(edge)))
                ELSE again
          [] out = "UpToDate" /\ e.tag = "Cached" ->
                IF looked.err # "none" THEN Mode("Err", None, None, looked.err, 0)
                ELSE UpgradeMode_cached(edge, to_upgrade, Unwrap(looked.up))
          [] out = "Uncached" -> Mode("UpgradeMissing", None, None, "none", 0)
          [] out = "Outdated" /\ absent ->
                IF default_upgrade(edge) # None
                THEN Mode("UpgradeOutdated", None, default_upgrade(edge), "none", 0)
                ELSE again
          [] out = "Outdated" /\ e.tag = "Cached" ->
                IF looked.err # "none" THEN Mode("Err", None, None, looked.err, 0)
                ELSE Mode("UpgradeOutdated", None, looked.up, "none", 0)
          [] OTHER -> Mode("Panic", None, None, "unimplemented", 0)

\* what the request of an edge is cached as: the level, the user, or (for the
\* edges that ignore the page of levels) nothing the edge reads
ResultOf(edge, up) ==
    CASE edge = "PartialLevel->Level" -> up
      [] edge \in {"PartialLevel user", "Level user"} ->
            IF up = None THEN [account_id |-> CHOOSE a \in AccountIds : TRUE] ELSE Unwrap(up)
      [] OTHER -> 0

\* the object a secondary key holds when it holds one
ObjectAt(k) ==
    IF k[1] = "song" THEN [song_id |-> k[2]] ELSE [user_id |-> k[2], account_id |-> None]

\* an entry of the given kind, written at time 0
EntryOf(tag, v) ==
    CASE tag = "Cached" -> Cached(v, 0)
      [] tag = "MarkedAbsent" -> MarkedAbsent(0)
      [] OTHER -> Missing

EntryTags == {"Missing", "Cached", "MarkedAbsent"}

InitUpgrade ==
    /\ ttl \in TTLs
    /\ now = 0
    /\ calls = [s \in Slots |-> Unused]
    /\ nCalls = 0
    /\ makeCalls = [q \in UpRequests |-> 0]
    /\ \E edge \in Edges :
        \E self \in Froms(edge), up \in Upgrades(edge), rt \in EntryTags, st \in EntryTags :
            /\ run = [op |-> "upgrade", edge |-> edge, from |-> self, v |-> up,
                      stage |-> "start", into |-> None, carry |-> None, back |-> None,
                      request |-> None, lookups |-> 0, force |-> FALSE, mode |-> NoMode]
            /\ cache = [k \in UpKeys |->
                    IF upgrade_request(edge, self) # None
                       /\ k = ReqKey(Unwrap(upgrade_request(edge, self)))
                    THEN EntryOf(rt, ResultOf(edge, up))
                    ELSE IF k \in SecKeys THEN EntryOf(st, ObjectAt(k))
                    ELSE Missing]

\* Upgrade::upgrade applied to the object and the upgrade value
Splice ==
    /\ run.stage = "start"
    /\ LET r == upgrade(run.edge, run.from, run.v)
       IN  run' = [run EXCEPT !.stage = "spliced", !.into = Some(r[1]), !.carry = Some(r[2])]
    /\ UNCHANGED <<cache, now, ttl, calls, nCalls, makeCalls>>

\* Upgrade::downgrade applied to the pair upgrade returned
Unsplice ==
    /\ run.stage = "spliced"
    /\ run' = [run EXCEPT !.stage = "unspliced",
                          !.back = Some(downgrade(run.edge, Unwrap(run.into), Unwrap(run.carry)))]
    /\ UNCHANGED <<cache, now, ttl, calls, nCalls, makeCalls>>

\* UpgradeMode::new (mod.rs 104-166); lookupOk and ok say whether the lookup of
\* Gdcf::process and the one of lookup_upgrade succeed
UpgradeMode_new(force_refresh, lookupOk, ok) ==
    /\ run.stage = "start"
    /\ LET rq == upgrade_request(run.edge, run.from)
       IN  IF rq = None
           THEN /\ run' = [run EXCEPT !.stage = "new", !.force = force_refresh,
                                      !.mode = UpgradeMode_default_upgrade(run.edge, run.from)]
                /\ UNCHANGED makeCalls
           ELSE LET r == Unwrap(rq)
                    e == IF lookupOk THEN lookup_request(cache, r) ELSE Missing
                    out == ProcessResult(lookupOk, e, now, ttl)
                    mode == UpgradeMode_match(run.edge, run.from, cache, e, out, ok)
                    made == MakeAfterProcess(makeCalls, r, out)
                IN  /\ run' = [run EXCEPT !.stage = "new", !.force = force_refresh,
                                          !.request = rq, !.lookups = 1, !.mode = mode]
                    /\ makeCalls' = [made EXCEPT ![r] = @ + mode.refreshes]
    /\ UNCHANGED <<cache, now, ttl, calls, nCalls>>

NextUpgrade ==
    \/ Splice
    \/ Unsplice
    \/ \E force \in BOOLEAN, lookupOk \in BOOLEAN, ok \in BOOLEAN :
            UpgradeMode_new(force, lookupOk, ok)
    \/ Tick

SpecUpgrade == InitUpgrade /\ [][NextUpgrade]_vars

(* ------------- levels<NewgroundsSong, Creator> (lib.rs 470-514) ---------- *)

\* the longest page of a listing
MaxPage == 2

\* the creators and songs the levels of a listing refer to
ListedCreators == {1, 2}
ListedSongs == {1}

\* PartialLevel<u64, u64> as a listing carries it
ListedLevels == [creator : ListedCreators, custom_song : {None} \cup {Some(i) : i \in ListedSongs}]

Pages == UNION {[1..n -> ListedLevels] : n \in 0..MaxPage}

\* the secondary objects a response to the listing can embed
ListedSecondary ==
    {[tag |-> t, id |-> i] : t \in {"Creator", "MissingCreator"}, i \in ListedCreators}
    \cup {[tag |-> t, id |-> i] : t \in {"NewgroundsSong", "MissingNewgroundsSong"}, i \in ListedSongs}

ListingKeys ==
    ReqKeys \cup {CreatorKey(i) : i \in ListedCreators} \cup {SongKey(i) : i \in ListedSongs}

\* a response names an id at most once, as an object or as missing
WellFormed(W) == \A a, b \in W : SecondaryKey(a) = SecondaryKey(b) => a = b

\* the elements of a set in some order
RECURSIVE SeqOf(_)
SeqOf(S) ==
    IF S = {} THEN <<>>
    ELSE LET x == CHOOSE y \in S : TRUE IN <<x>> \o SeqOf(S \ {x})

\* the lookup closure of the song step (lib.rs 502-507)
levels_lookup_song(c, level) ==
    IF level.custom_song # None THEN c[SongKey(Unwrap(level.custom_song))]
    ELSE DeducedAbsent

\* mutant of levels_lookup_creator: the creator looked up under the song's id
levels_lookup_creatorBySong(c, level) ==
    IF level.custom_song # None THEN c[CreatorKey(Unwrap(level.custom_song))]
    ELSE c[CreatorKey(level.creator)]

\* the lookup closure of the creator step (lib.rs 475)
levels_lookup_creator(c, level) == c[CreatorKey(level.creator)]

\* mutant of levels_refresh: a miss asks the server for the listing again
levels_refreshAsks(level) == [entry |-> DeducedAbsent, made |-> 1]

\* the refresh closure of both steps (lib.rs 481, 510): it resolves to
\* DeducedAbsent at once and makes no request
levels_refresh(level) == [entry |-> DeducedAbsent, made |-> 0]

\* extend_all on one object: a looked-up entry that is Missing is replaced by
\* what the refresh closure resolves to
Extension(e, level) == IF e.tag = "Missing" THEN levels_refresh(level).entry ELSE e

\* exchange::partial_level_song and exchange::partial_level_user applied to
\* the entries of both steps
extend_level(c, level) ==
    [creator |-> EntryToOption(Extension(levels_lookup_creator(c, level), level)),
     custom_song |-> EntryToOption(Extension(levels_lookup_song(c, level), level)),
     from |-> level]

\* extend_all of both steps over a page
extend_all(c, page) == [i \in DOMAIN page |-> extend_level(c, page[i])]

\* the requests the refresh closures make while a page is extended
MadeByExtension(c, page) ==
    Cardinality({i \in DOMAIN page :
        levels_lookup_song(c, page[i]).tag = "Missing" /\ levels_refresh(page[i]).made > 0})
    + Cardinality({i \in DOMAIN page :
        levels_lookup_creator(c, page[i]).tag = "Missing" /\ levels_refresh(page[i]).made > 0})

\* the cache the future of Gdcf::process leaves (lib.rs 321-337): result is
\* the requested object, v the payload of the secondaries; the failed-th
\* store fails and ends the future, failed = 0 when none does
ProcessFuture(c, r, resp, excess, result, v, t, failed) ==
    LET to == AfterResponse("process", resp)
        n == IF to = "sec" THEN Len(excess) ELSE 0
        upto == IF failed = 0 THEN n ELSE failed - 1
        secs == StoreExcess(c, SubSeq(excess, 1, IF upto < n THEN upto ELSE n), 1, v, t)
    IN  IF to \in {"primary", "sec"}
        THEN IF failed = 0 THEN store(secs, ReqKey(r), result, t) ELSE secs
        ELSE c

InitLevels ==
    /\ ttl \in TTLs
    /\ now = 0
    /\ calls = [s \in Slots |-> Unused]
    /\ nCalls = 0
    /\ makeCalls = [r \in ReqIds |-> 0]
    /\ \E page \in Pages, W \in SUBSET ListedSecondary, rt \in EntryTags,
          held \in SUBSET (ListingKeys \ ReqKeys) :
            /\ WellFormed(W)
            /\ run = [op |-> "levels", req |-> 1, listing |-> page, excess |-> SeqOf(W),
                      stage |-> "start", outcome |-> "none", resp |-> NoResponse,
                      cached |-> None, out |-> None, err |-> "none"]
            /\ cache = [k \in ListingKeys |->
                    IF k = ReqKey(1) THEN EntryOf(rt, page)
                    ELSE IF k \in held THEN Cached(0, 0)
                    ELSE Missing]

\* Gdcf::levels<NewgroundsSong, Creator>: process of the listing, then both
\* extend_all steps on the entry it returned (lib.rs 470-485, 494-514, 354-360);
\* lookupOk and ok say whether the lookup of the request and those of the
\* closures succeed
LevelsProcess(lookupOk, ok) ==
    /\ run.stage = "start"
    /\ LET r == run.req
           e == IF lookupOk THEN lookup_request(cache, r) ELSE Missing
           out == ProcessResult(lookupOk, e, now, ttl)
           hit == out \in {"UpToDate", "Outdated"} /\ e.tag = "Cached"
           made == MakeAfterProcess(makeCalls, r, out)
       IN  /\ run' = [run EXCEPT
                   !.outcome = out,
                   !.stage = IF out = "CacheError" \/ (hit /\ ~ok) THEN "failed"
                             ELSE IF out = "UpToDate" THEN "done" ELSE "pending",
                   !.err = IF out = "CacheError" \/ (hit /\ ~ok) THEN "Cache" ELSE "none",
                   !.cached = IF hit /\ ok THEN Some(extend_all(cache, e.val)) ELSE None]
           /\ makeCalls' = [made EXCEPT ![r] =
                   @ + (IF hit /\ ok THEN MadeByExtension(cache, e.val) ELSE 0)]
    /\ UNCHANGED <<cache, now, ttl, calls, nCalls>>

\* the future of the listing resolves: the client answers, the secondaries
\* and the page are stored (the failed-th store failing, 0 for none) and the
\* stored page is extended
LevelsResolve(resp, failed, ok) ==
    /\ run.stage = "pending"
    /\ resp.tag = "More" => resp.n = Len(run.excess)
    /\ LET r == run.req
           to == AfterResponse("process", resp)
           stored == to \in {"primary", "sec"}
           after == ProcessFuture(cache, r, resp, run.excess, run.listing, Payload(1), now, failed)
           good == stored /\ failed = 0 /\ ok
       IN  /\ failed <= (IF to = "sec" THEN Len(run.excess) + 1 ELSE IF stored THEN 1 ELSE 0)
           /\ cache' = after
           /\ run' = [run EXCEPT
                   !.resp = resp,
                   !.stage = IF good THEN "done" ELSE "failed",
                   !.err = IF ~stored THEN ResponseError("process", resp)
                           ELSE IF good THEN "none" ELSE "Cache",
                   !.out = IF good THEN Some(extend_all(after, run.listing)) ELSE None]
           /\ makeCalls' = [makeCalls EXCEPT ![r] =
                   @ + (IF good THEN MadeByExtension(after, run.listing) ELSE 0)]
    /\ UNCHANGED <<now, ttl, calls, nCalls>>

NextLevels ==
    \/ \E lookupOk \in BOOLEAN, ok \in BOOLEAN : LevelsProcess(lookupOk, ok)
    \/ \E resp \in {Exact, NoData, ApiErr} \cup {More(n) : n \in 0..Cardinality(ListedSecondary)},
          failed \in 0..(Cardinality(ListedSecondary) + 1), ok \in BOOLEAN :
            LevelsResolve(resp, failed, ok)
    \/ Tick

\* the executor keeps polling the future and the client answers
SpecLevels == InitLevels /\ [][NextLevels]_vars /\ WF_vars(NextLevels)

(* ----------------------- paginate and GdcfStream ------------------------ *)

\* the last page a request can ask for: next() of it is None
LastPage == 2

PageNumbers == 0..LastPage

\* the number of levels on a page
PageSizes == {0, 1}

\* mutant of request_next: the following page is left out
request_nextSkipsOne(page) == IF page + 1 < LastPage THEN Some(page + 2) ELSE None

\* PaginatableRequest::next: the request for the following page
request_next(page) == IF page < LastPage THEN Some(page + 1) ELSE None

\* a request being processed by the stream: ready with the page it resolved
\* to, pending on the client, or failed
Current(page, state, value, err) ==
    [page |-> page, state |-> state, value |-> value, err |-> err]

NoCurrent == Current(0, "none", 0, "none")

\* process_request on a page request (lib.rs 354-360 over Gdcf::process)
process_page(c, page, lookupOk, t, life) ==
    LET e == IF lookupOk THEN lookup_request(c, page) ELSE Missing
        out == ProcessResult(lookupOk, e, t, life)
    IN  CASE out = "CacheError" -> Current(page, "failed", 0, "Cache")
          [] out = "UpToDate" -> Current(page, "ready", e.val, "none")
          [] OTHER -> Current(page, "pending", 0, "none")

\* the calls of the client process_request makes for a page
made_for_page(m, c, page, lookupOk, t, life) ==
    MakeAfterProcess(m, page,
        ProcessResult(lookupOk, IF lookupOk THEN lookup_request(c, page) ELSE Missing, t, life))

\* mutant of GdcfStream: the stream starts at the page after the requested one
GdcfStreamSkips(request) ==
    [next_request |-> request_next(request),
     current_request |-> IF request < LastPage THEN request + 1 ELSE request]

\* the stream paginate builds (lib.rs 178-185)
GdcfStream(request) ==
    [next_request |-> request_next(request), current_request |-> request]

\* mutant of poll_outcome: an error is skipped and the stream moves on
poll_outcomeSkipsErrors(current, next_request) ==
    IF current.state = "ready" /\ current.value = 0 THEN "end"
    ELSE IF next_request = None THEN "emit and end"
    ELSE "emit and advance"

\* what GdcfStream does with its resolved request: an error is yielded and
\* ends the stream, an empty page ends it, any other page is emitted and the
\* stream moves on to the next request if there is one
poll_outcome(current, next_request) ==
    IF current.state = "failed" THEN "fail"
    ELSE IF current.value = 0 THEN "end"
    ELSE IF next_request = None THEN "emit and end"
    ELSE "emit and advance"

InitPages ==
    /\ ttl \in TTLs
    /\ now = 0
    /\ calls = [s \in Slots |-> Unused]
    /\ nCalls = 0
    /\ makeCalls = [page \in PageNumbers |-> 0]
    /\ cache \in [{ReqKey(page) : page \in PageNumbers} ->
                    {Missing} \cup {Cached(n, 0) : n \in PageSizes}]
    /\ run = [op |-> "paginate", stage |-> "start", first |-> 0, next_request |-> None,
              current |-> NoCurrent, emitted |-> <<>>, processed |-> <<>>,
              yielded |-> "none"]

\* ProcessRequest::paginate (lib.rs 173-186); the ? hands a failed lookup to
\* the caller, who gets no stream
Paginate(request, lookupOk) ==
    /\ run.stage = "start"
    /\ LET stream == GdcfStream(request)
           current == process_page(cache, stream.current_request, lookupOk, now, ttl)
       IN  /\ run' = [run EXCEPT
                   !.first = request,
                   !.stage = IF current.state = "failed" THEN "refused" ELSE "streaming",
                   !.next_request = stream.next_request,
                   !.current = current,
                   !.processed = <<stream.current_request>>,
                   !.yielded = IF current.state = "failed" THEN current.err ELSE "none"]
           /\ makeCalls' = made_for_page(makeCalls, cache, stream.current_request,
                                         lookupOk, now, ttl)
    /\ UNCHANGED <<cache, now, ttl, calls, nCalls>>

\* the future of the request the stream waits for resolves (lib.rs 321-338):
\* the client answers with a page of n levels or an error, the page is stored
PageAnswers(resp, n, ok) ==
    /\ run.stage = "streaming"
    /\ run.current.state = "pending"
    /\ resp.n = 0
    /\ LET page == run.current.page
           to == AfterResponse("process", resp)
       IN  IF to = "primary"
           THEN IF ok
                THEN /\ cache' = store(cache, ReqKey(page), n, now)
                     /\ run' = [run EXCEPT !.current = Current(page, "ready", n, "none")]
                ELSE /\ run' = [run EXCEPT !.current = Current(page, "failed", 0, "Cache")]
                     /\ UNCHANGED cache
           ELSE /\ n = 0 /\ ok
                /\ run' = [run EXCEPT !.current =
                        Current(page, "failed", 0, ResponseError("process", resp))]
                /\ UNCHANGED cache
    /\ UNCHANGED <<now, ttl, calls, nCalls, makeCalls>>

\* GdcfStream::poll once its request has resolved
StreamPoll(lookupOk) ==
    /\ run.stage = "streaming"
    /\ run.current.state \in {"ready", "failed"}
    /\ LET todo == poll_outcome(run.current, run.next_request)
           item == [page |-> run.current.page, size |-> run.current.value]
       IN  CASE todo = "fail" ->
                  /\ run' = [run EXCEPT !.stage = "ended", !.yielded = run.current.err]
                  /\ UNCHANGED makeCalls
             [] todo = "end" ->
                  /\ run' = [run EXCEPT !.stage = "ended"]
                  /\ UNCHANGED makeCalls
             [] todo = "emit and end" ->
                  /\ run' = [run EXCEPT !.stage = "ended", !.emitted = Append(@, item)]
                  /\ UNCHANGED makeCalls
             [] OTHER ->
                  LET request == Unwrap(run.next_request)
                  IN  /\ run' = [run EXCEPT
                              !.emitted = Append(@, item),
                              !.current = process_page(cache, request, lookupOk, now, ttl),
                              !.next_request = request_next(request),
                              !.processed = Append(@, request)]
                      /\ makeCalls' = made_for_page(makeCalls, cache, request,
                                                    lookupOk, now, ttl)
    /\ UNCHANGED <<cache, now, ttl, calls, nCalls>>

NextPages ==
    \/ \E request \in PageNumbers, lookupOk \in BOOLEAN : Paginate(request, lookupOk)
    \/ \E resp \in Responses, n \in PageSizes, ok \in BOOLEAN : PageAnswers(resp, n, ok)
    \/ \E lookupOk \in BOOLEAN : StreamPoll(lookupOk)
    \/ Tick

\* the consumer keeps polling the stream and the client answers
SpecPages == InitPages /\ [][NextPages]_vars /\ WF_vars(NextPages)

(* -------------- level<NewgroundsSong, Creator> (lib.rs 362-428) ---------- *)

\* the request ids of this operation: 1 is the LevelRequest of the level, and
\* LevelsRequest::default().with_id(level_id), the request both refresh
\* closures build from nothing but the level's id (lib.rs 387, 417), is 2
with_id(level_id) == level_id + 1

\* the levels the LevelRequest can answer with
ChainLevels == [level_id : LevelIds, custom_song : OptSongIds, creator : SecIds]

\* the future of Gdcf::refresh run to its end (lib.rs 241-280): the cache it
\* leaves and the error it fails with; the failed-th cache write fails, 0 for none
RefreshFuture(c, r, resp, excess, v, t, failed) ==
    LET to == AfterResponse("refresh", resp)
        n == IF to = "sec" THEN Len(excess) ELSE 0
        upto == IF failed - 1 < n THEN failed - 1 ELSE n
    IN  CASE to = "failed" -> [cache |-> c, err |-> ResponseError("refresh", resp)]
          [] failed = 0 -> [cache |-> RefreshTask(c, r, resp, excess, v, t), err |-> "none"]
          [] OTHER -> [cache |-> StoreExcess(c, SubSeq(excess, 1, upto), 1, v, t),
                       err |-> "Cache"]

\* the number of cache writes a refresh with this response attempts
RefreshWrites(resp, excess) ==
    LET to == AfterResponse("refresh", resp)
    IN  CASE to = "sec" -> Len(excess) + 1
          [] to \in {"primary", "mark"} -> 1
          [] OTHER -> 0

\* the lookup closure of the song step (lib.rs 374-379)
level_lookup_song(c, level) ==
    IF level.custom_song # None THEN c[SongKey(Unwrap(level.custom_song))]
    ELSE DeducedAbsent

\* the lookup closure of the creator step (lib.rs 413)
level_lookup_creator(c, level) == c[CreatorKey(level.creator)]

\* the key the closures of a step read
StepKey(step, level) ==
    IF step = "song" THEN SongKey(Unwrap(level.custom_song)) ELSE CreatorKey(level.creator)

\* GdcfFuture::extend hands the object to the refresh closure when the entry
\* its lookup closure returned is missing or expired
extend_refreshes(e, t, life) == is_expired(e, t, life)

\* mutant of level_refresh: the deduced absence written back to the cache
level_refreshPersists(c, key, level, resp, excess, t, failed, ok) ==
    LET f == RefreshFuture(c, with_id(level.level_id), resp, excess, Payload(2), t, failed)
    IN  IF f.err # "none" THEN [cache |-> f.cache, entry |-> Missing, err |-> f.err, made |-> 1]
        ELSE IF ~ok THEN [cache |-> f.cache, entry |-> Missing, err |-> "Cache", made |-> 1]
        ELSE IF f.cache[key].tag = "Missing"
             THEN [cache |-> [f.cache EXCEPT ![key] = DeducedAbsent],
                   entry |-> DeducedAbsent, err |-> "none", made |-> 1]
             ELSE [cache |-> f.cache, entry |-> f.cache[key], err |-> "none", made |-> 1]

\* mutant of level_refresh: the miss after the refresh handed on as it is
level_refreshLeavesMissing(c, key, level, resp, excess, t, failed, ok) ==
    LET f == RefreshFuture(c, with_id(level.level_id), resp, excess, Payload(2), t, failed)
    IN  IF f.err # "none" THEN [cache |-> f.cache, entry |-> Missing, err |-> f.err, made |-> 1]
        ELSE IF ~ok THEN [cache |-> f.cache, entry |-> Missing, err |-> "Cache", made |-> 1]
        ELSE [cache |-> f.cache, entry |-> f.cache[key], err |-> "none", made |-> 1]

\* the refresh closure of both steps (lib.rs 387-394, 414-425): Gdcf::refresh
\* of the LevelsRequest, which calls ApiClient::make without a look at the
\* cache, and then a lookup of the object, a miss becoming DeducedAbsent
level_refresh(c, key, level, resp, excess, t, failed, ok) ==
    LET f == RefreshFuture(c, with_id(level.level_id), resp, excess, Payload(2), t, failed)
    IN  IF f.err # "none" THEN [cache |-> f.cache, entry |-> Missing, err |-> f.err, made |-> 1]
        ELSE IF ~ok THEN [cache |-> f.cache, entry |-> Missing, err |-> "Cache", made |-> 1]
        ELSE [cache |-> f.cache,
              entry |-> IF f.cache[key].tag = "Missing" THEN DeducedAbsent ELSE f.cache[key],
              err |-> "none", made |-> 1]

InitChain ==
    /\ ttl \in TTLs
    /\ now = 0
    /\ cache \in [Keys -> Entries]
    /\ calls = [s \in Slots |-> Unused]
    /\ nCalls = 0
    /\ makeCalls = [r \in ReqIds |-> 0]
    /\ \E level \in ChainLevels :
            run = [op |-> "level", level |-> level, stage |-> "start", base |-> Missing,
                   creator |-> Missing, song |-> Missing, err |-> "none", refreshes |-> 0]

\* Gdcf::level of the LevelRequest (lib.rs 354-360, 283-345): an entry that is
\* up to date is used, otherwise the future asks the server and stores the answer
LevelProcess(lookupOk, resp, failed) ==
    /\ run.stage = "start"
    /\ LET r == run.level.level_id
           e == IF lookupOk THEN lookup_request(cache, r) ELSE Missing
           out == ProcessResult(lookupOk, e, now, ttl)
           to == AfterResponse("process", resp)
           after == ProcessFuture(cache, r, resp, <<>>, Payload(1), Payload(1), now, failed)
       IN  /\ failed <= (IF to = "primary" THEN 1 ELSE 0)
           /\ out \in {"CacheError", "UpToDate"} => (resp = Exact /\ failed = 0)
           /\ makeCalls' = MakeAfterProcess(makeCalls, r, out)
           /\ CASE out = "CacheError" ->
                     /\ run' = [run EXCEPT !.stage = "failed", !.err = "Cache"]
                     /\ UNCHANGED cache
                [] out = "UpToDate" ->
                     /\ run' = [run EXCEPT !.base = e,
                                   !.stage = IF e.tag = "Cached" THEN "creator" ELSE "done"]
                     /\ UNCHANGED cache
                [] OTHER ->
                     /\ cache' = after
                     /\ run' = IF to = "primary" /\ failed = 0
                               THEN [run EXCEPT !.base = Cached(Payload(1), now),
                                                !.stage = "creator"]
                               ELSE [run EXCEPT !.stage = "failed",
                                        !.err = IF to = "primary" THEN "Cache"
                                                ELSE ResponseError("process", resp)]
    /\ UNCHANGED <<now, ttl, calls, nCalls>>

\* one extend step (lib.rs 397 for the song, 427 for the creator): the lookup
\* closure, and the refresh closure when the entry is missing or expired; ok
\* and ok2 say whether the lookups of the two closures succeed
ExtendStep(step, ok, resp, excess, failed, ok2) ==
    /\ run.stage = step
    /\ resp.tag = "More" => resp.n = Len(excess)
    /\ resp.tag # "More" => excess = <<>>
    /\ failed <= RefreshWrites(resp, excess)
    /\ LET level == run.level
           e == IF step = "song" THEN level_lookup_song(cache, level)
                ELSE level_lookup_creator(cache, level)
           asks == ok /\ extend_refreshes(e, now, ttl)
           f == level_refresh(cache, StepKey(step, level), level, resp, excess, now, failed, ok2)
           next == IF step = "creator" THEN "song" ELSE "done"
       IN  /\ ~asks => (resp = Exact /\ failed = 0 /\ ok2)
           /\ e = DeducedAbsent => ok
           /\ IF ~ok THEN
                    /\ run' = [run EXCEPT !.stage = "failed", !.err = "Cache"]
                    /\ UNCHANGED <<cache, makeCalls>>
              ELSE IF ~asks THEN
                    /\ run' = [run EXCEPT ![step] = e, !.stage = next]
                    /\ UNCHANGED <<cache, makeCalls>>
              ELSE  /\ cache' = f.cache
                    /\ makeCalls' = [makeCalls EXCEPT ![with_id(level.level_id)] = @ + f.made]
                    /\ run' = IF f.err = "none"
                              THEN [run EXCEPT ![step] = f.entry, !.stage = next,
                                               !.refreshes = @ + 1]
                              ELSE [run EXCEPT !.stage = "failed", !.err = f.err,
                                               !.refreshes = @ + 1]
    /\ UNCHANGED <<now, ttl, calls, nCalls>>

NextChain ==
    \/ \E lookupOk \in BOOLEAN, resp \in {Exact, NoData, ApiErr}, failed \in 0..1 :
            LevelProcess(lookupOk, resp, failed)
    \/ \E step \in {"creator", "song"}, ok \in BOOLEAN, resp \in Responses,
          excess \in ExcessLists, failed \in 0..(MaxExcess + 1), ok2 \in BOOLEAN :
            ExtendStep(step, ok, resp, excess, failed, ok2)
    \/ Tick

\* the executor keeps polling the future and the client answers
SpecChain == InitChain /\ [][NextChain]_vars /\ WF_vars(NextChain)

(* --------------------- request key and fingerprint ----------------------- *)

\* a request: what it asks for and the force_refresh flag it carries
Requests == [id : ReqIds, force_refresh : BOOLEAN]

\* Request::set_force_refresh (upgrade/mod.rs 113)
set_force_refresh(r, b) == [r EXCEPT !.force_refresh = b]

\* Clone of a request: every field copied
clone(r) == [id |-> r.id, force_refresh |-> r.force_refresh]

\* mutant of key: the flag made part of the key, a forced request keyed as
\* another resource
keyWithFlag(r) == IF r.force_refresh THEN ReqKey(CHOOSE i \in ReqIds : i # r.id) ELSE ReqKey(r.id)

\* Request::key (lib.rs 239): the canonical key, the kind of the request and
\* the parameters that decide the resource
key(r) == ReqKey(r.id)

\* the space of the hash, and the code of a kind prefix
HashSpace == 65536
KindCode(kind) == CASE kind = "request" -> 1 [] kind = "creator" -> 2 [] OTHER -> 3

\* hash of a canonical key: a function of the key and nothing else
hash(k) == (KindCode(k[1]) * 256 + k[2]) % HashSpace

\* Request hash, the fingerprint: the hash of the request's key
fingerprint(r) == hash(key(r))

InitKey ==
    /\ ttl \in TTLs
    /\ now = 0
    /\ cache \in [Keys -> Entries]
    /\ calls = [s \in Slots |-> Unused]
    /\ nCalls = 0
    /\ makeCalls = [r \in ReqIds |-> 0]
    /\ \E r \in Requests :
            run = [op |-> "key", request |-> r, given |-> r, stage |-> "new",
                   read |-> Missing, wrote |-> None]

\* UpgradeMode::new sets the flag on the request it is about to process
\* (upgrade/mod.rs 112-114)
SetForceRefresh(force_refresh) ==
    /\ run.stage = "new"
    /\ run' = [run EXCEPT !.request = IF force_refresh THEN set_force_refresh(@, TRUE) ELSE @,
                          !.stage = "set"]
    /\ UNCHANGED <<cache, now, ttl, calls, nCalls, makeCalls>>

\* Gdcf::refresh of the request (lib.rs 237-280): the answer is written under
\* request.key()
KeyedRefresh(resp) ==
    /\ run.stage = "set"
    /\ LET to == AfterResponse("refresh", resp)
           k == key(run.request)
       IN  /\ cache' = CASE to = "primary" -> store(cache, k, Payload(1), now)
                         [] to = "mark" -> mark_absent(cache, k, now)
                         [] OTHER -> cache
           /\ run' = [run EXCEPT !.stage = "refreshed",
                                 !.wrote = IF to \in {"primary", "mark"} THEN Some(k) ELSE None]
    /\ makeCalls' = [makeCalls EXCEPT ![run.request.id] = @ + 1]
    /\ UNCHANGED <<now, ttl, calls, nCalls>>

\* the lookup of the request as it was given, without the flag (lib.rs 299)
KeyedLookup ==
    /\ run.stage = "refreshed"
    /\ run' = [run EXCEPT !.stage = "read",
                          !.read = cache[key(set_force_refresh(run.given, FALSE))]]
    /\ UNCHANGED <<cache, now, ttl, calls, nCalls, makeCalls>>

NextKey ==
    \/ \E force_refresh \in BOOLEAN : SetForceRefresh(force_refresh)
    \/ \E resp \in {Exact, NoData, ApiErr} : KeyedRefresh(resp)
    \/ KeyedLookup
    \/ Tick

SpecKey == InitKey /\ [][NextKey]_vars

(* -------------- UpgradeMode::new for any implementor of Upgrade ---------- *)

\* what UpgradeMode::new uses of an implementor E of the Upgrade trait
\* (mod.rs 22-36): whether upgrade_request(&to_upgrade) is Some and whether
\* default_upgrade() is Some
Implementors == [has_request : BOOLEAN, has_default : BOOLEAN]

\* mutant of UpgradeMode_default_upgrade_of: a missing default is taken for an
\* error of the cache
UpgradeMode_default_upgrade_ofAsCacheError(E) ==
    IF E.has_default THEN Mode("UpgradeCached", None, None, "none", 0)
    ELSE Mode("Err", None, None, "Cache", 0)

\* UpgradeMode::default_upgrade (mod.rs 82-88)
UpgradeMode_default_upgrade_of(E) ==
    IF E.has_default THEN Mode("UpgradeCached", None, None, "none", 0)
    ELSE Mode("Err", None, None, "ConsistencyAssumptionViolated", 0)

\* UpgradeMode::new (mod.rs 104-166) for an implementor E: e is the entry
\* looked up for the request, out what Gdcf::process returned, ok whether the
\* lookup of lookup_upgrade succeeds
UpgradeMode_new_of(E, e, out, ok) ==
    LET absent == e.tag \in {"DeducedAbsent", "MarkedAbsent"}
        again == IF ~E.has_request THEN UpgradeMode_default_upgrade_of(E)
                 ELSE Mode("UpgradeMissing", None, None, "none", 1)
    IN  CASE ~E.has_request -> UpgradeMode_default_upgrade_of(E)
          [] out = "CacheError" -> Mode("Err", None, None, "Cache", 0)
          [] out \in {"UpToDate", "Outdated"} /\ e.tag = "Missing" ->
                Mode("Panic", None, None, "unreachable", 0)
          [] out = "UpToDate" /\ absent ->
                IF E.has_default THEN Mode("UpgradeCached", None, None, "none", 0) ELSE again
          [] out = "UpToDate" /\ e.tag = "Cached" ->
                IF ok THEN Mode("UpgradeCached", None, None, "none", 0)
                ELSE Mode("Err", None, None, "Cache", 0)
          [] out = "Uncached" -> Mode("UpgradeMissing", None, None, "none", 0)
          [] out = "Outdated" /\ absent ->
                IF E.has_default THEN Mode("UpgradeOutdated", None, None, "none", 0) ELSE again
          [] out = "Outdated" /\ e.tag = "Cached" ->
                IF ok THEN Mode("UpgradeOutdated", None, None, "none", 0)
                ELSE Mode("Err", None, None, "Cache", 0)
          [] OTHER -> Mode("Panic", None, None, "unimplemented", 0)

InitTrait ==
    /\ ttl \in TTLs
    /\ now = 0
    /\ cache \in [Keys -> Entries]
    /\ calls = [s \in Slots |-> Unused]
    /\ nCalls = 0
    /\ makeCalls = [r \in ReqIds |-> 0]
    /\ \E E \in Implementors, r \in ReqIds :
            run = [op |-> "new", E |-> E, req |-> r, stage |-> "start", lookups |-> 0,
                   lookupOk |-> TRUE, ok |-> TRUE, outcome |-> "none", mode |-> NoMode]

\* one call of UpgradeMode::new; lookupOk and ok say whether the lookup of
\* Gdcf::process and the one of lookup_upgrade succeed
TraitNew(lookupOk, ok) ==
    /\ run.stage = "start"
    /\ IF ~run.E.has_request
       THEN /\ run' = [run EXCEPT !.stage = "new", !.mode = UpgradeMode_default_upgrade_of(run.E)]
            /\ UNCHANGED makeCalls
       ELSE LET e == IF lookupOk THEN lookup_request(cache, run.req) ELSE Missing
                out == ProcessResult(lookupOk, e, now, ttl)
                mode == UpgradeMode_new_of(run.E, e, out, ok)
                made == MakeAfterProcess(makeCalls, run.req, out)
            IN  /\ run' = [run EXCEPT !.stage = "new", !.lookups = 1, !.lookupOk = lookupOk,
                                      !.ok = ok, !.outcome = out, !.mode = mode]
                /\ makeCalls' = [made EXCEPT ![run.req] = @ + mode.refreshes]
    /\ UNCHANGED <<cache, now, ttl, calls, nCalls>>

NextTrait ==
    \/ \E lookupOk \in BOOLEAN, ok \in BOOLEAN : TraitNew(lookupOk, ok)
    \/ Tick

SpecTrait == InitTrait /\ [][NextTrait]_vars

(* ----------------------------- GameVersion ---------------------------- *)

\* GameVersion (gdcf_model/src/lib.rs 18-28)
Unknown == [tag |-> "Unknown", major |-> 0, minor |-> 0]
Version(minor, major) == [tag |-> "Version", major |-> major, minor |-> minor]

\* From<u8> for GameVersion
GameVersion_from(version) ==
    IF version = 10 THEN Unknown
    ELSE Version(version % 10, version \div 10)

\* Into<u8> for GameVersion: major * 10 + minor in u8, the value it returns
\* or the panic; on overflow a build with overflow checks panics and one
\* without wraps
GameVersion_into(self) ==
    IF self.tag = "Unknown" THEN {[panic |-> FALSE, val |-> 10]}
    ELSE IF self.major * 10 > 255 \/ ((self.major * 10) % 256) + self.minor > 255
    THEN {[panic |-> TRUE, val |-> 0],
          [panic |-> FALSE, val |-> (self.major * 10 + self.minor) % 256]}
    ELSE {[panic |-> FALSE, val |-> self.major * 10 + self.minor]}

\* a conversion there and back: from a u8 (dir "u8") or from a GameVersion
\* (dir "version")
InitVersion ==
    /\ ttl \in TTLs
    /\ now = 0
    /\ cache = [k \in Keys |-> Missing]
    /\ calls = [s \in Slots |-> Unused]
    /\ nCalls = 0
    /\ makeCalls = [r \in ReqIds |-> 0]
    /\ \/ \E v \in 0..255 :
            run = [op |-> "version", dir |-> "u8", v0 |-> v, g0 |-> Unknown,
                   steps |-> 0, v |-> v, g |-> Unknown, panicked |-> FALSE]
       \/ \E g \in {Unknown} \cup {Version(minor, major) : minor \in 0..255, major \in 0..255} :
            run = [op |-> "version", dir |-> "version", v0 |-> 0, g0 |-> g,
                   steps |-> 0, v |-> 0, g |-> g, panicked |-> FALSE]

\* GameVersion::from(v)
VersionFrom ==
    /\ ~run.panicked
    /\ \/ run.dir = "u8" /\ run.steps = 0
       \/ run.dir = "version" /\ run.steps = 1
    /\ run' = [run EXCEPT !.steps = @ + 1, !.g = GameVersion_from(run.v)]
    /\ UNCHANGED <<cache, now, ttl, calls, nCalls, makeCalls>>

\* g.into()
VersionInto ==
    /\ ~run.panicked
    /\ \/ run.dir = "version" /\ run.steps = 0
       \/ run.dir = "u8" /\ run.steps = 1
    /\ \E r \in GameVersion_into(run.g) :
            run' = [run EXCEPT !.steps = @ + 1, !.v = r.val, !.panicked = r.panic]
    /\ UNCHANGED <<cache, now, ttl, calls, nCalls, makeCalls>>

NextVersion ==
    \/ VersionFrom
    \/ VersionInto
    \/ Tick

SpecVersion == InitVersion /\ [][NextVersion]_vars

(* ---------------------------- level_password -------------------------- *)

\* the longest string handed to level_password
MaxPassword == 3

\* characters of the strings; the last one takes two bytes in UTF-8
Chars == {"0", "1", "a", "U+00E9"}

\* String::len: the length in bytes
RECURSIVE len(_)
len(s) ==
    IF s = <<>> THEN 0
    ELSE (IF Head(s) = "U+00E9" THEN 2 ELSE 1) + len(Tail(s))

\* Password (gdcf_model) and what level_password comes to
NoCopy == [tag |-> "NoCopy", pass |-> <<>>]
FreeCopy == [tag |-> "FreeCopy", pass |-> <<>>]
PasswordCopy(pass) == [tag |-> "PasswordCopy", pass |-> pass]
Ok(password) == [tag |-> "Ok", password |-> password]

\* level_password (gdcf_parse/src/level.rs 68-86); String::remove(0) panics
\* on the empty string
level_password(encrypted) ==
    IF encrypted = <<"0">> THEN Ok(NoCopy)
    ELSE IF len(encrypted) = 1 THEN Ok(FreeCopy)
    ELSE IF encrypted = <<>> THEN [tag |-> "Panic", password |-> NoCopy]
    ELSE Ok(PasswordCopy(Tail(encrypted)))

InitPassword ==
    /\ ttl \in TTLs
    /\ now = 0
    /\ cache = [k \in Keys |-> Missing]
    /\ calls = [s \in Slots |-> Unused]
    /\ nCalls = 0
    /\ makeCalls = [r \in ReqIds |-> 0]
    /\ \E n \in 0..MaxPassword :
        \E encrypted \in [1..n -> Chars] :
            run = [op |-> "password", encrypted |-> encrypted, stage |-> "start",
                   result |-> [tag |-> "none", password |-> NoCopy]]

\* level_password applied to the string
ParsePassword ==
    /\ run.stage = "start"
    /\ run' = [run EXCEPT !.stage = "parsed", !.result = level_password(run.encrypted)]
    /\ UNCHANGED <<cache, now, ttl, calls, nCalls, makeCalls>>

NextPassword ==
    \/ ParsePassword
    \/ Tick

SpecPassword == InitPassword /\ [][NextPassword]_vars

(* ------------------------------ claims --------------------------------- *)

\* the step in which slot s is taken by a call of Gdcf::process
ProcessStep(s) == calls[s].kind = "unused" /\ calls'[s].kind = "process"

\* the entry the cache holds for the request slot s is processing, before the step
LookedUp(s) == cache[ReqKey(calls'[s].req)]

\* stored_at + ttl < now
Stale(e) == e.at + ttl < now

\* slot s holds a future of Gdcf::process that is waiting for the client
Pending(s) == calls[s].kind = "process" /\ calls[s].pc = "api"

\* slots whose call invoked ApiClient::make for request r
Askers(r) ==
    {s \in Slots : calls[s].req = r /\ calls[s].outcome \in {"Uncached", "Outdated", "Refresh"}}

\* the store of slot s's primary result is committed
PrimaryStored(s) ==
    \/ calls[s].pc = "done" /\ calls[s].resp.tag \in {"Exact", "More"}
    \/ /\ calls[s].req \in ReqIds
       /\ cache[ReqKey(calls[s].req)].tag = "Cached"
       /\ cache[ReqKey(calls[s].req)].val = Payload(s)

C2_SecondariesBeforePrimary ==
    \A s \in Slots :
        (calls[s].resp.tag = "More" /\ PrimaryStored(s))
            => /\ calls[s].idx = calls[s].resp.n + 1
               /\ calls[s].writes = calls[s].resp.n + 1

C2_Witness ==
    \E s \in Slots :
        /\ calls[s].resp.tag = "More" /\ calls[s].resp.n >= 2
        /\ calls[s].pc = "done" /\ calls[s].writes = calls[s].resp.n + 1

\* C3: a lookup that returns a Cached or MarkedAbsent entry that is not
\* expired, for a request without force_refresh, makes process return
\* UpToDate with exactly that entry, build no future and leave
\* ApiClient::make uncalled.
C3_FreshEntryUpToDate ==
    [][\A s \in Slots :
        (/\ ProcessStep(s) /\ calls'[s].lookupOk /\ ~calls'[s].force
         /\ LookedUp(s).tag \in {"Cached", "MarkedAbsent"} /\ ~Stale(LookedUp(s)))
            => /\ calls'[s].outcome = "UpToDate"
               /\ calls'[s].entry = LookedUp(s)
               /\ calls'[s].pc = "none"
               /\ makeCalls' = makeCalls]_vars

C3_Witness ==
    \E s \in Slots :
        /\ calls[s].kind = "process" /\ ~calls[s].force
        /\ calls[s].outcome = "UpToDate" /\ calls[s].entry.tag = "Cached"
        /\ calls[s].pc = "none"

\* C4 (as stated): a Cached entry that is not expired, looked up for a request
\* whose force_refresh flag is set, is answered with Outdated.
C4_ForceRefreshOutdated ==
    \A s \in Slots :
        (/\ calls[s].kind = "process" /\ calls[s].lookupOk /\ calls[s].force
         /\ calls[s].entry.tag = "Cached" /\ ~calls[s].expired)
            => calls[s].outcome = "Outdated"

\* C5: a lookup that returns an expired Cached or MarkedAbsent entry makes
\* process return Outdated with exactly that entry and a future for the same
\* request, whatever force_refresh is.
C5_ExpiredEntryOutdated ==
    [][\A s \in Slots :
        (/\ ProcessStep(s) /\ calls'[s].lookupOk
         /\ LookedUp(s).tag \in {"Cached", "MarkedAbsent"} /\ Stale(LookedUp(s)))
            => /\ calls'[s].outcome = "Outdated"
               /\ calls'[s].entry = LookedUp(s)
               /\ calls'[s].pc = "api"
               /\ makeCalls' = [makeCalls EXCEPT ![calls'[s].req] = @ + 1]]_vars

C5_Witness ==
    \E s \in Slots :
        /\ calls[s].outcome = "Outdated" /\ calls[s].entry.tag = "MarkedAbsent"
        /\ calls[s].force /\ calls[s].pc = "api"

\* C6: a lookup that returns Missing makes process return Uncached, with no
\* entry, whatever force_refresh is; and when that future's response is
\* Exact(result), the step that completes it leaves Cached(result) in the
\* cache under the request's key and resolves the future to result.
C6_MissingUncached ==
    [][\A s \in Slots :
        /\ (ProcessStep(s) /\ calls'[s].lookupOk /\ LookedUp(s).tag = "Missing")
              => /\ calls'[s].outcome = "Uncached"
                 /\ calls'[s].entry = Missing
                 /\ calls'[s].pc = "api"
        /\ (/\ calls[s].outcome = "Uncached" /\ calls[s].resp.tag = "Exact"
            /\ calls[s].pc # "done" /\ calls'[s].pc = "done")
              => /\ cache'[ReqKey(calls[s].req)].tag = "Cached"
                 /\ cache'[ReqKey(calls[s].req)].val = Payload(s)
                 /\ calls'[s].result.val = Payload(s)]_vars

C6_Witness ==
    \E s \in Slots :
        /\ calls[s].outcome = "Uncached" /\ calls[s].force
        /\ calls[s].resp.tag = "Exact" /\ calls[s].pc = "done"
        /\ cache[ReqKey(calls[s].req)] = Cached(Payload(s), now)

\* C7: when the lookup of process fails, process returns the Cache error at
\* once: no outcome, no entry, no future, and ApiClient::make is not invoked.
C7_LookupErrorSurfaces ==
    [][\A s \in Slots :
        (ProcessStep(s) /\ ~calls'[s].lookupOk)
            => /\ calls'[s].outcome = "CacheError"
               /\ calls'[s].err = "Cache"
               /\ calls'[s].pc = "none"
               /\ calls'[s].entry = Missing
               /\ makeCalls' = makeCalls]_vars

C7_Witness ==
    \E s \in Slots :
        /\ calls[s].kind = "process" /\ ~calls[s].lookupOk
        /\ calls[s].outcome = "CacheError" /\ makeCalls[calls[s].req] = 0

\* C8 (as stated): every future whose client call fails with NoData goes on
\* to mark_absent on the request's key, the future handed out by process with
\* Outdated or Uncached included.
C8_NoDataMarkedAbsent ==
    \A s \in Slots :
        calls[s].resp.tag = "NoData" => (calls[s].pc = "mark" \/ calls[s].marked)

C10_ApiFailureLeavesCache ==
    [][\A s \in Slots :
        /\ (calls[s].err # "ApiOther" /\ calls'[s].err = "ApiOther") => cache' = cache
        /\ calls[s].err = "ApiOther" => (calls'[s] = calls[s] /\ calls[s].writes = 0)]_vars

C10_Witness ==
    \E s \in Slots :
        /\ calls[s].err = "ApiOther" /\ calls[s].outcome = "Outdated"
        /\ calls[s].entry.tag = "Cached"
        /\ cache[ReqKey(calls[s].req)] = calls[s].entry
        /\ \E k \in SecKeys : cache[k].tag # "Missing"

\* the step in which the future of Gdcf::refresh in slot s resolves successfully
RefreshResolves(s) ==
    /\ calls[s].kind = "refresh"
    /\ calls[s].pc # "done"
    /\ calls'[s].pc = "done"

\* the entry lookup_request returns for the request of slot s right after the step
LookedUpAfter(s) == lookup_request(cache', calls[s].req)

C12_RefreshIdempotent ==
    (run.op = "refresh" /\ run.done = 2) => ModuloMeta(cache) = run.once

\* a More response with a stored and a tombstoned secondary ran twice, the
\* second time at a later instant, over a cache it changed
C12_Witness ==
    /\ run.op = "refresh" /\ run.done = 2
    /\ run.resp.tag = "More" /\ Len(run.excess) = 2
    /\ run.excess[1].tag = "Creator" /\ run.excess[2].tag = "MissingNewgroundsSong"
    /\ cache[ReqKey(run.req)] = Cached(Payload(1), 1)
    /\ cache[CreatorKey(1)] = Cached(Payload(1), 1)
    /\ cache[SongKey(1)] = MarkedAbsent(1)

\* C13 as stated: for every edge of upgrade/level.rs, every object and every
\* upgrade value, downgrade applied to the pair upgrade returned yields the
\* object and the upgrade value again, component by component
C13_RoundTrip ==
    run.stage = "unspliced" => Unwrap(run.back) = <<run.from, run.v>>

\* UpgradeMode::new has run on the object of the run
Upgraded == run.op = "upgrade" /\ run.stage = "new"

\* the partial level inside the object an UpgradeCached holds
UpgradedBase == BaseOf(run.edge, Unwrap(run.mode.into))

\* C14: when upgrade_request returns None for the object being upgraded,
\* UpgradeMode::new looks up no request, makes no ApiClient::make call and
\* creates no refresh future; it returns UpgradeCached of the object upgraded
\* with default_upgrade(), whose slot is None
C14_NoRequestUsesDefault ==
    (Upgraded /\ upgrade_request(run.edge, run.from) = None) =>
        /\ run.lookups = 0
        /\ \A q \in UpRequests : makeCalls[q] = 0
        /\ run.mode.refreshes = 0
        /\ run.mode.tag = "UpgradeCached"
        /\ run.mode.into = Some(upgrade(run.edge, run.from, None)[1])
        /\ run.edge \in {"Level song", "PartialLevel song"} =>
                UpgradedBase.custom_song = None
        /\ run.edge \in {"Level user", "PartialLevel user"} =>
                UpgradedBase.creator = None

\* a level without a custom song went through the song edge while the cache
\* held songs, and came out with no song
C14_Witness ==
    /\ Upgraded
    /\ run.edge = "Level song"
    /\ run.from.base.custom_song = None
    /\ cache[SongKey(1)].tag = "Cached"
    /\ run.mode.tag = "UpgradeCached"
    /\ UpgradedBase.custom_song = None
    /\ run.lookups = 0

\* the condition under which the edge of the run asks for a request
AsksFor ==
    LET b == BaseOf(run.edge, run.from)
    IN  CASE run.edge \in {"Level song", "PartialLevel song"} ->
                IF b.custom_song # None THEN Some(LevelsBySong(Unwrap(b.custom_song)))
                ELSE None
          [] run.edge \in {"Level user", "PartialLevel user"} ->
                IF b.creator # None /\ Unwrap(b.creator).account_id # None
                THEN Some(UserRequest(Unwrap(Unwrap(b.creator).account_id)))
                ELSE None
          [] run.edge \in {"Level creator", "PartialLevel creator"} ->
                Some(LevelsByUser(b.creator))
          [] OTHER -> Some(LevelRequest(b.level_id))

\* C15: the song edges ask for the levels of the song exactly when custom_song
\* is Some; the Creator -> User edges ask for the user of the account exactly
\* when the creator is present with an account id, and otherwise the user
\* slot becomes None; the id -> Creator edges and PartialLevel -> Level always ask
C15_RequestsWhenStated ==
    Upgraded =>
        /\ run.request = AsksFor
        /\ run.lookups = (IF AsksFor = None THEN 0 ELSE 1)
        /\ (run.edge \in {"Level user", "PartialLevel user"} /\ AsksFor = None) =>
                /\ run.mode.tag = "UpgradeCached"
                /\ UpgradedBase.creator = None

\* a creator without an account went through the Creator -> User edge and
\* came out as no user, without a request
C15_Witness ==
    /\ Upgraded
    /\ run.edge = "PartialLevel user"
    /\ run.from.creator # None
    /\ Unwrap(run.from.creator).account_id = None
    /\ run.request = None
    /\ run.mode.tag = "UpgradeCached"
    /\ UpgradedBase.creator = None

\* the listing of the run has finished, in a page or in an error
Finished == run.op = "levels" /\ run.stage \in {"done", "failed"}

\* the slots of the extended page p are None wherever cache c misses the id
\* the level carries
MissesAreNone(p, c) ==
    \A i \in DOMAIN p :
        /\ c[CreatorKey(p[i].from.creator)].tag = "Missing" => p[i].creator = None
        /\ (p[i].from.custom_song # None
             /\ c[SongKey(Unwrap(p[i].from.custom_song))].tag = "Missing")
                => p[i].custom_song = None

\* C16: processing levels<NewgroundsSong, Creator> makes at most one
\* ApiClient::make call in total, the one for the listing; a slot whose
\* creator or song id misses the cache is None; and the processing always
\* finishes, whatever the server embedded
C16_MissIsNoneOneMake ==
    /\ [](/\ makeCalls[1] <= 1
          /\ \A r \in ReqIds \ {1} : makeCalls[r] = 0
          /\ (run.stage = "done" /\ run.out # None) => MissesAreNone(Unwrap(run.out), cache)
          /\ (run.stage = "pending" /\ run.cached # None)
                => MissesAreNone(Unwrap(run.cached), cache))
    /\ <>Finished

\* the server embedded none of the objects of a level whose creator and song
\* the cache does not know: the page came back with both slots None after
\* the one request for the listing
C16_Witness ==
    /\ run.op = "levels" /\ run.stage = "done" /\ run.out # None
    /\ run.resp.tag = "More" /\ run.excess = <<>>
    /\ Len(run.listing) = 1
    /\ run.listing[1].custom_song # None
    /\ cache[CreatorKey(run.listing[1].creator)].tag = "Missing"
    /\ cache[SongKey(1)].tag = "Missing"
    /\ Unwrap(run.out)[1].creator = None
    /\ Unwrap(run.out)[1].custom_song = None
    /\ makeCalls[1] = 1

\* the objects among the secondaries of the response
Embedded == {run.excess[i] : i \in DOMAIN run.excess}

Ended == run.op = "paginate" /\ run.stage \in {"ended", "refused"}

\* the pages the stream emitted
EmittedPages == [i \in DOMAIN run.emitted |-> run.emitted[i].page]

\* C18: the stream of paginate emits the pages in increasing order from the
\* requested one, none of them empty; it ends once the next request is None
\* or a page came out empty, and asks for no page after an empty one: with
\* page 0 non-empty and page 1 empty it emits page 0 alone and never
\* processes page 2
C18_EndsAtEmptyPage ==
    /\ [](run.op = "paginate" =>
            /\ \A i \in DOMAIN run.emitted :
                    /\ run.emitted[i].page = run.first + i - 1
                    /\ run.emitted[i].size > 0
            /\ \A i \in DOMAIN run.processed : run.processed[i] = run.first + i - 1
            /\ Len(run.processed) <= Len(run.emitted) + 1
            /\ (run.stage = "ended" /\ run.yielded = "none") =>
                    \/ run.next_request = None /\ Len(run.emitted) = Len(run.processed)
                    \/ run.current.state = "ready" /\ run.current.value = 0
            /\ (run.stage = "ended" /\ run.first = 0 /\ run.current.page = 1
                 /\ run.current.state = "ready" /\ run.current.value = 0) =>
                    /\ EmittedPages = <<0>>
                    /\ run.processed = <<0, 1>>
                    /\ makeCalls[2] = 0)
    /\ <>Ended

\* page 0 came from the client with a level, page 1 came empty: the stream
\* ended with page 0 as its only item and page 2 was never asked for
C18_Witness ==
    /\ run.op = "paginate" /\ run.stage = "ended" /\ run.yielded = "none"
    /\ run.first = 0
    /\ EmittedPages = <<0>>
    /\ run.current = Current(1, "ready", 0, "none")
    /\ makeCalls = [page \in PageNumbers |-> IF page < 2 THEN 1 ELSE 0]
    /\ cache[ReqKey(1)].tag = "Cached"

\* the request the stream waits for has failed, or the stream has yielded an error
Errored ==
    run.op = "paginate" /\ (run.current.state = "failed" \/ run.yielded # "none")

\* C19: once processing or refreshing a page has failed with an API or a
\* cache error, the stream yields that error and ends; it emits no further
\* page and makes no further request
C19_EndsAtFirstError ==
    /\ [][Errored =>
            /\ run'.emitted = run.emitted
            /\ run'.processed = run.processed
            /\ makeCalls' = makeCalls
            /\ run' # run =>
                    /\ run'.stage = "ended"
                    /\ run'.yielded = run.current.err]_vars
    /\ [](Errored ~> Ended)

\* page 0 was emitted, the request for page 1 failed at the client: the
\* stream yielded that error and ended, page 2 was never asked for
C19_Witness ==
    /\ run.op = "paginate" /\ run.stage = "ended"
    /\ run.first = 0
    /\ EmittedPages = <<0>>
    /\ run.current.page = 1 /\ run.current.state = "failed"
    /\ run.yielded = "ApiOther"
    /\ run.processed = <<0, 1>>
    /\ makeCalls[2] = 0

\* slot s belongs to a caller that was handed Outdated(old, refresh)
HoldsOutdated(s) == calls[s].kind = "process" /\ calls[s].outcome = "Outdated"

\* C20: a caller holding Outdated(old, refresh) observes the same old entry
\* in every step, whichever task writes the cache and whether or not its
\* refresh has run; the refresh resolves to the object this refresh stored,
\* and keeps that result when another writer overwrites the key afterwards
C20_HeldEntryStable ==
    [][\A s \in Slots :
        /\ HoldsOutdated(s) =>
                /\ calls'[s].entry = calls[s].entry
                /\ calls[s].entry.tag \in {"Cached", "MarkedAbsent"}
        /\ (HoldsOutdated(s) /\ calls[s].pc # "done" /\ calls'[s].pc = "done") =>
                /\ calls'[s].result.val = Payload(s)
                /\ cache'[ReqKey(calls[s].req)].val = calls'[s].result.val
        /\ (HoldsOutdated(s) /\ calls[s].pc = "done") =>
                calls'[s].result = calls[s].result]_vars

\* the caller of slot 1 was handed the entry of the earlier run and a
\* refresh that stored a new object; a later refresh overwrote the key: the
\* caller still holds the old entry and the result of its own refresh
C20_Witness ==
    /\ HoldsOutdated(1)
    /\ calls[1].pc = "done"
    /\ calls[1].entry = Cached(0, 0)
    /\ calls[1].result.val = Payload(1)
    /\ calls[2].kind = "refresh" /\ calls[2].pc = "done" /\ calls[2].req = calls[1].req
    /\ cache[ReqKey(calls[1].req)].tag = "Cached"
    /\ cache[ReqKey(calls[1].req)].val = Payload(2)

Dropped(s) == calls[s].kind = "refresh" /\ calls[s].pc = "dropped"

\* C21: dropping a refresh task at a suspension point (before the response, or
\* between two store operations) changes nothing in the cache and keeps the
\* writes the task committed; every key holds a whole entry; a dropped task
\* has not stored its primary, and a primary in its new form has all the
\* secondaries of its More response written before it.
C21_DropKeepsCommittedWrites ==
    /\ [][\A s \in Slots :
            (~Dropped(s) /\ Dropped(s)') =>
                /\ cache' = cache
                /\ calls'[s].writes = calls[s].writes
                /\ calls'[s].idx = calls[s].idx]_vars
    /\ [](\A k \in Keys :
            \/ cache[k] = Missing
            \/ \E v \in Slots, t \in 0..MaxTime : cache[k] = Cached(v, t)
            \/ \E t \in 0..MaxTime : cache[k] = MarkedAbsent(t))
    /\ [](\A s \in Slots :
            /\ Dropped(s) =>
                ~(/\ cache[ReqKey(calls[s].req)].tag = "Cached"
                  /\ cache[ReqKey(calls[s].req)].val = Payload(s))
            /\ (/\ calls[s].kind = "refresh" /\ calls[s].resp.tag = "More"
                /\ cache[ReqKey(calls[s].req)].tag = "Cached"
                /\ cache[ReqKey(calls[s].req)].val = Payload(s))
                   => calls[s].writes = calls[s].resp.n + 1)

C21_Witness ==
    \E s \in Slots, o \in Secondary :
        /\ Dropped(s) /\ calls[s].resp.tag = "More" /\ calls[s].resp.n >= 2
        /\ calls[s].writes = 1
        /\ cache[SecondaryKey(o)].tag \in {"Cached", "MarkedAbsent"}
        /\ cache[ReqKey(calls[s].req)] = Missing

\* C22: no key of the cache store ever holds DeducedAbsent: the writes of
\* process and refresh are store (a Cached record) and mark_absent (a
\* MarkedAbsent record), and the DeducedAbsent a lookup or refresh closure
\* answers with stays in the result of the operation.
C22_DeducedAbsentNotPersisted ==
    /\ [](\A k \in Keys : cache[k].tag # "DeducedAbsent")
    /\ [][\A k \in Keys :
            cache'[k] # cache[k] => cache'[k].tag \in {"Cached", "MarkedAbsent"}]_vars

C22_Witness ==
    /\ run.stage = "done" /\ run.refreshes > 0
    /\ run.creator = DeducedAbsent
    /\ cache[CreatorKey(run.level.creator)] = Missing
    /\ cache[ReqKey(with_id(run.level.level_id))].tag \in {"Cached", "MarkedAbsent"}
    /\ cache[ReqKey(with_id(run.level.level_id))].at = now

\* C25 (as stated): with a cache expiry greater than 0, one call of
\* Gdcf::level<NewgroundsSong, Creator> hands the LevelsRequest of the level
\* to ApiClient::make at most once.
C25_LevelsRequestMadeOnce ==
    ttl > 0 => makeCalls[with_id(run.level.level_id)] <= 1

\* the entry the request of slot s holds before the step
HeldBefore(s) == lookup_request(cache, calls[s].req)

\* C23: every key holds one record, Missing, Cached or MarkedAbsent; a
\* refresh that resolves to MarkedAbsent for a key that held a Cached value
\* replaces the value by the tombstone (a lookup right after returns the
\* tombstone), and a refresh that stores a value for a key that held a
\* tombstone replaces the tombstone by the value.
C23_OneRecordPerKey ==
    /\ [](/\ DOMAIN cache = Keys
          /\ \A k \in Keys : cache[k].tag \in {"Missing", "Cached", "MarkedAbsent"})
    /\ [][\A s \in Slots : RefreshResolves(s) =>
            /\ (calls[s].resp.tag = "NoData" /\ HeldBefore(s).tag = "Cached")
                    => LookedUpAfter(s) = MarkedAbsent(now)
            /\ (calls[s].resp.tag \in {"Exact", "More"} /\ HeldBefore(s).tag = "MarkedAbsent")
                    => LookedUpAfter(s) = Cached(Payload(s), now)]_vars

C23_Witness ==
    /\ calls[1].kind = "refresh" /\ calls[1].req = 1 /\ calls[1].resp.tag = "NoData"
    /\ calls[1].pc = "done" /\ calls[1].result.tag = "MarkedAbsent"
    /\ calls[2].kind = "refresh" /\ calls[2].req = 1 /\ calls[2].resp.tag = "Exact"
    /\ calls[2].pc = "done"
    /\ cache[ReqKey(1)].tag = "Cached" /\ cache[ReqKey(1)].val = Payload(2)

\* C24: the force_refresh flag is no part of the key or the fingerprint: a
\* request with the flag set and the same request without it have equal key
\* and fingerprint, key(r) = key(clone(r)), fingerprint(r) = hash(key(r)), and
\* what a refresh of the forced request writes is the entry the unforced
\* request reads.
C24_FlagNotInKey ==
    /\ \A b \in BOOLEAN :
        /\ key(set_force_refresh(run.request, b)) = key(run.given)
        /\ fingerprint(set_force_refresh(run.request, b)) = fingerprint(run.given)
    /\ key(run.request) = key(clone(run.request))
    /\ fingerprint(run.request) = hash(key(run.request))
    /\ run.wrote # None => Unwrap(run.wrote) = key(set_force_refresh(run.given, FALSE))
    /\ (run.stage = "read" /\ run.wrote # None) => run.read = cache[Unwrap(run.wrote)]

C24_Witness ==
    /\ run.stage = "read"
    /\ run.request.force_refresh /\ ~run.given.force_refresh
    /\ run.wrote = Some(key(run.given))
    /\ run.read.tag = "Cached" /\ run.read.val = Payload(1) /\ run.read.at = 1

\* C30: Gdcf::process reports a Missing lookup only as Uncached, never as
\* UpToDate(Missing) or Outdated(Missing, _), whatever the cache, the time and
\* the request; UpgradeMode::new therefore never runs its unreachable!() arm
\* nor its catch-all unimplemented!() arm: it returns a mode or an error.
C30_MissingOnlyUncached ==
    /\ \A k \in DOMAIN cache, lookupOk \in BOOLEAN :
        /\ cache[k].tag = "Missing" =>
                ProcessResult(lookupOk, cache[k], now, ttl) \in {"Uncached", "CacheError"}
        /\ \A ok \in BOOLEAN :
            (upgrade_request(run.edge, run.from) # None
                /\ k = ReqKey(Unwrap(upgrade_request(run.edge, run.from))))
            => UpgradeMode_match(run.edge, run.from, cache, cache[k],
                    ProcessResult(lookupOk, cache[k], now, ttl), ok).tag # "Panic"
    /\ run.stage = "new" =>
        /\ run.mode.tag \in {"UpgradeCached", "UpgradeOutdated", "UpgradeMissing", "Err"}
        /\ run.mode.tag = "Err" => run.mode.err \in {"Cache", "ConsistencyAssumptionViolated"}

C30_Witness ==
    /\ run.stage = "new" /\ run.request # None
    /\ cache[ReqKey(Unwrap(run.request))] = Missing
    /\ run.mode.tag = "UpgradeMissing" /\ run.mode.refreshes = 0
    /\ makeCalls[Unwrap(run.request)] = 1

\* the operation has resolved
Resolves == run.op = "level" /\ run.stage \in {"done", "failed"}

\* the kinds of entry an operation can answer with
AnswerTags == {"Cached", "MarkedAbsent", "DeducedAbsent"}

\* C26: when the client and the cache always answer, Gdcf::level resolves:
\* either with entries that are Cached, MarkedAbsent or DeducedAbsent (absence
\* is an answer, not an error) or with an Api or Cache error; each of the two
\* steps asks the server at most once, so the chain does not loop.
C26_FacadeResolves ==
    /\ <>Resolves
    /\ [](run.stage = "done" =>
            /\ run.err = "none"
            /\ run.base.tag \in {"Cached", "MarkedAbsent"}
            /\ run.base.tag = "Cached" =>
                    (run.creator.tag \in AnswerTags /\ run.song.tag \in AnswerTags))
    /\ [](run.stage = "failed" => run.err \in {"ApiNoData", "ApiOther", "Cache"})
    /\ [](run.refreshes <= 2 /\ makeCalls[with_id(run.level.level_id)] = run.refreshes)
    /\ [][Resolves => run' = run]_vars

C26_Witness ==
    /\ Resolves /\ run.stage = "done" /\ run.refreshes = 2
    /\ run.base.tag = "Cached" /\ run.creator.tag = "DeducedAbsent"
    /\ run.song.tag = "MarkedAbsent"

\* the secondaries of the task's response that concern the creator, and the
\* song, of an id: their positions in excess
CreatorRounds(id) ==
    {i \in DOMAIN run.excess :
        run.excess[i].id = id /\ run.excess[i].tag \in {"Creator", "MissingCreator"}}
SongRounds(id) ==
    {i \in DOMAIN run.excess :
        run.excess[i].id = id /\ run.excess[i].tag \in {"NewgroundsSong", "MissingNewgroundsSong"}}

\* the last of a non-empty set of positions
Last(S) == CHOOSE i \in S : \A j \in S : j <= i

\* C27: a refresh whose More response carries MissingCreator(id) or
\* MissingNewgroundsSong(id) leaves a tombstone under the creator key id,
\* respectively the song key id (the last secondary for a key decides), so a
\* later lookup returns MarkedAbsent; the secondaries of creators leave the
\* song entry of the same id as it was, and those of songs the creator entry.
C27_MissingSecondariesTombstoned ==
    [][(run.done = 0 /\ run'.done = 1 /\ run.resp.tag = "More") =>
        \A id \in SecIds :
            /\ IF CreatorRounds(id) = {} THEN cache'[CreatorKey(id)] = cache[CreatorKey(id)]
               ELSE IF run.excess[Last(CreatorRounds(id))].tag = "MissingCreator"
               THEN cache'[CreatorKey(id)] = MarkedAbsent(now)
               ELSE cache'[CreatorKey(id)].tag = "Cached"
            /\ IF SongRounds(id) = {} THEN cache'[SongKey(id)] = cache[SongKey(id)]
               ELSE IF run.excess[Last(SongRounds(id))].tag = "MissingNewgroundsSong"
               THEN cache'[SongKey(id)] = MarkedAbsent(now)
               ELSE cache'[SongKey(id)].tag = "Cached"]_vars

C27_Witness ==
    /\ run.done = 1 /\ run.resp.tag = "More"
    /\ \E id \in SecIds :
        /\ CreatorRounds(id) # {} /\ SongRounds(id) = {}
        /\ \A i \in CreatorRounds(id) : run.excess[i].tag = "MissingCreator"
        /\ cache[CreatorKey(id)] = MarkedAbsent(1)
        /\ cache[SongKey(id)] = Cached(0, 0)

\* the entry the lookup closure of the step the run is at returns
StepEntry ==
    IF run.stage = "song" THEN level_lookup_song(cache, run.level)
    ELSE level_lookup_creator(cache, run.level)

\* what the entry model of the specification says of an entry: Missing is
\* expired, DeducedAbsent is not, a record is when stored_at + ttl < now
ExpiredByMeta(e) ==
    CASE e.tag = "Missing" -> TRUE
      [] e.tag = "DeducedAbsent" -> FALSE
      [] OTHER -> e.at + ttl < now

\* C28: is_expired is true for Missing, false for DeducedAbsent, and for
\* Cached and MarkedAbsent true exactly when stored_at + ttl < now; the value
\* and the kind of record play no part. A step of Gdcf::level asks the server
\* exactly when the entry of its lookup closure is expired in that sense.
C28_ExpiredByStoredAtAndTtl ==
    /\ [](/\ is_expired(Missing, now, ttl)
          /\ ~is_expired(DeducedAbsent, now, ttl)
          /\ \A k \in Keys :
                /\ is_expired(cache[k], now, ttl) = ExpiredByMeta(cache[k])
                /\ \A v \in 0..MaxCalls :
                    /\ is_expired(Cached(v, cache[k].at), now, ttl) = (cache[k].at + ttl < now)
                    /\ is_expired(MarkedAbsent(cache[k].at), now, ttl) = (cache[k].at + ttl < now))
    /\ [][(/\ run.stage \in {"creator", "song"} /\ run' # run
           /\ ~(run'.stage = "failed" /\ run'.refreshes = run.refreshes))
            => ((run'.refreshes = run.refreshes + 1) = ExpiredByMeta(StepEntry))]_vars

C28_Witness ==
    /\ ttl = 0 /\ now = 1
    /\ run.stage = "song" /\ run.refreshes = 1
    /\ run.creator = Cached(0, 0)
    /\ cache[CreatorKey(run.level.creator)] = Cached(0, 0)

\* what the accessors and the conversion answer for one entry
AccessorsAgree(e) ==
    /\ (entry_value(e) # None) = (e.tag = "Cached")
    /\ e.tag = "Cached" => entry_value(e) = Some(e.val)
    /\ is_absent(e) = (e.tag \in {"MarkedAbsent", "DeducedAbsent"})
    /\ ~(entry_value(e) # None /\ is_absent(e))
    /\ EntryToOption(e) = (IF e.tag = "Cached" THEN Some(e.val) ELSE None)

\* the slot the edge of the run fills in the object it returned
FilledSlot ==
    IF run.edge \in {"Level song", "PartialLevel song"} THEN UpgradedBase.custom_song
    ELSE UpgradedBase.creator

\* C29: value() is Some exactly for a Cached entry, is_absent() is true
\* exactly for MarkedAbsent and DeducedAbsent, never both; the conversion of a
\* looked-up secondary into the optional upgrade value is Some(v) for
\* Cached(v) and None for Missing, MarkedAbsent and DeducedAbsent, and that is
\* what lookup_upgrade splices into the level.
C29_ValueAndAbsence ==
    /\ AccessorsAgree(Missing) /\ AccessorsAgree(DeducedAbsent)
    /\ \A k \in DOMAIN cache : AccessorsAgree(cache[k])
    /\ (/\ Upgraded /\ run.mode.tag = "UpgradeCached" /\ run.request # None
        /\ run.edge \in {"Level song", "PartialLevel song", "Level creator", "PartialLevel creator"}
        /\ cache[ReqKey(Unwrap(run.request))].tag = "Cached")
        => LET e == cache[Unwrap(LookupKey(run.edge, run.from))]
           IN  FilledSlot = (IF e.tag = "Cached" THEN Some(e.val) ELSE None)

C29_Witness ==
    /\ Upgraded /\ run.mode.tag = "UpgradeCached" /\ run.request # None
    /\ run.edge = "Level creator"
    /\ cache[ReqKey(Unwrap(run.request))].tag = "Cached"
    /\ cache[CreatorKey(run.from.base.creator)].tag = "MarkedAbsent"
    /\ FilledSlot = None

\* the step of UpgradeMode::new
NewStep == run.op = "upgrade" /\ run.stage = "start" /\ run'.stage = "new"

\* the request of the edge of the run, and the entry the cache holds for it
Asked == upgrade_request(run.edge, run.from)
AskedEntry == cache[ReqKey(Unwrap(Asked))]

\* the entry of the asked request is a tombstone that is up to date / expired
FreshTombstone == Asked # None /\ AskedEntry.tag = "MarkedAbsent" /\ ~is_expired(AskedEntry, now, ttl)
StaleTombstone == Asked # None /\ AskedEntry.tag = "MarkedAbsent" /\ is_expired(AskedEntry, now, ttl)

\* UpgradeMode::new returned the error of a cache operation
CacheFailed == run'.mode.tag = "Err" /\ run'.mode.err = "Cache"

\* C31: when the request of an edge is processed as UpToDate with an absent
\* entry and the edge has a default_upgrade, UpgradeMode::new returns
\* UpgradeCached(upgrade(from, default)), creates no refresh future and makes
\* no call of ApiClient::make.
C31_AbsentWithDefaultIsCached ==
    [][(NewStep /\ FreshTombstone /\ default_upgrade(run.edge) # None /\ ~CacheFailed) =>
        /\ run'.mode.tag = "UpgradeCached"
        /\ run'.mode.into =
                Some(upgrade(run.edge, run.from, Unwrap(default_upgrade(run.edge)))[1])
        /\ run'.mode.refreshes = 0
        /\ makeCalls' = makeCalls
        /\ cache' = cache]_vars

C31_Witness ==
    /\ Upgraded /\ run.edge = "Level creator" /\ run.lookups = 1
    /\ cache[ReqKey(Unwrap(run.request))] = MarkedAbsent(0)
    /\ ttl = 1
    /\ run.mode.tag = "UpgradeCached"
    /\ UpgradedBase.creator = None
    /\ \A q \in UpRequests : makeCalls[q] = 0

\* C32: when the request of an edge is processed as UpToDate with an absent
\* entry, the edge has no default_upgrade and upgrade_request returns Some
\* (PartialLevel -> Level with an unexpired tombstone for the level), the mode
\* is UpgradeMissing(from, refresh) and the refresh asks the server for that
\* request once, although the tombstone is not expired.
C32_AbsentWithoutDefaultRefreshes ==
    [][(NewStep /\ FreshTombstone /\ default_upgrade(run.edge) = None /\ ~CacheFailed) =>
        /\ run'.mode.tag = "UpgradeMissing"
        /\ run'.mode.into = None
        /\ run'.mode.refreshes = 1
        /\ makeCalls' = [makeCalls EXCEPT ![Unwrap(Asked)] = @ + 1]
        /\ cache' = cache]_vars

C32_Witness ==
    /\ Upgraded /\ run.edge = "PartialLevel->Level" /\ run.lookups = 1
    /\ cache[ReqKey(LevelRequest(run.from.level_id))] = MarkedAbsent(0)
    /\ ttl = 1 /\ now = 1
    /\ run.mode.tag = "UpgradeMissing" /\ run.mode.refreshes = 1
    /\ makeCalls[LevelRequest(run.from.level_id)] = 1

\* the modes UpgradeMode::new can return
ModeTags == {"UpgradeCached", "UpgradeOutdated", "UpgradeMissing"}

\* the implementor has neither a request for the object nor a default
NothingToOffer == ~run.E.has_request /\ ~run.E.has_default

\* C33 (as stated): UpgradeMode::new fails with ConsistencyAssumptionViolated
\* exactly when the edge has no default_upgrade and upgrade_request returns
\* None; in every other case it returns a mode.
C33_ViolatedOrMode ==
    (run.op = "new" /\ run.stage = "new") =>
        IF NothingToOffer
        THEN run.mode.tag = "Err" /\ run.mode.err = "ConsistencyAssumptionViolated"
        ELSE run.mode.tag \in ModeTags

\* C33 (amended): UpgradeMode::new fails with ConsistencyAssumptionViolated
\* exactly when the edge has no default_upgrade and upgrade_request returns
\* None, never for an edge that has a default; in every other case it returns
\* a mode, or the Cache error of the lookup that failed (the one of
\* Gdcf::process, or the one of lookup_upgrade on a Cached entry).
C33_ViolatedOnlyWithNothingToOffer ==
    (run.op = "new" /\ run.stage = "new") =>
        /\ (run.mode.tag = "Err" /\ run.mode.err = "ConsistencyAssumptionViolated")
                = NothingToOffer
        /\ run.E.has_default => run.mode.err # "ConsistencyAssumptionViolated"
        /\ ~NothingToOffer =>
            \/ run.mode.tag \in ModeTags
            \/ /\ run.mode.tag = "Err" /\ run.mode.err = "Cache"
               /\ run.E.has_request
               /\ ~run.lookupOk \/ (~run.ok /\ cache[ReqKey(run.req)].tag = "Cached")

C33_Witness ==
    /\ run.op = "new" /\ run.stage = "new" /\ NothingToOffer
    /\ run.mode.err = "ConsistencyAssumptionViolated"
    /\ run.lookups = 0 /\ \A r \in ReqIds : makeCalls[r] = 0

\* C34 (as stated): when the request of an edge is processed as Outdated with an absent
\* entry, the mode is UpgradeOutdated(from, default, refresh) for an edge with
\* a default and UpgradeMissing(from, refresh) for one without; either way
\* the refresh of the mode stands for exactly one call of ApiClient::make for
\* the request.
C34_OutdatedAbsent ==
    [][(NewStep /\ StaleTombstone /\ ~CacheFailed) =>
        /\ IF default_upgrade(run.edge) # None
           THEN /\ run'.mode.tag = "UpgradeOutdated"
                /\ run'.mode.ext = default_upgrade(run.edge)
           ELSE run'.mode.tag = "UpgradeMissing"
        /\ makeCalls' = [makeCalls EXCEPT ![Unwrap(Asked)] = @ + 1]
        /\ cache' = cache]_vars

\* the upgrade value lookup_upgrade finds for the cached result of the request
AskedUpgrade == lookup_upgrade(run.edge, run.from, cache, AskedEntry.val, TRUE).up

\* C35: with the request of the edge looked up successfully, an unexpired
\* Cached result gives UpgradeCached of the object spliced with the looked-up
\* value and no call of ApiClient::make; an expired Cached result gives
\* UpgradeOutdated carrying the looked-up value and one call; a Missing entry
\* gives UpgradeMissing and one call; a failing lookup_upgrade gives the error
\* Cache; the cache is written in none of these cases.
C35_CachedSecondaryModes ==
    [][(NewStep /\ Asked # None /\ AskedEntry.tag \in {"Cached", "Missing"}) =>
        /\ cache' = cache
        /\ run'.mode.tag = "Err" => run'.mode.err = "Cache"
        /\ (run'.mode.tag # "Err" /\ AskedEntry.tag = "Cached"
                /\ ~is_expired(AskedEntry, now, ttl)) =>
              /\ run'.mode.tag = "UpgradeCached"
              /\ run'.mode.into = Some(upgrade(run.edge, run.from, Unwrap(AskedUpgrade))[1])
              /\ makeCalls' = makeCalls
        /\ (run'.mode.tag # "Err" /\ AskedEntry.tag = "Cached"
                /\ is_expired(AskedEntry, now, ttl)) =>
              /\ run'.mode.tag = "UpgradeOutdated"
              /\ run'.mode.ext = AskedUpgrade
              /\ makeCalls' = [makeCalls EXCEPT ![Unwrap(Asked)] = @ + 1]
        /\ (run'.mode.tag # "Err" /\ AskedEntry.tag = "Missing") =>
              /\ run'.mode.tag = "UpgradeMissing"
              /\ makeCalls' = [makeCalls EXCEPT ![Unwrap(Asked)] = @ + 1]]_vars

C35_Witness ==
    /\ Upgraded /\ Asked # None /\ AskedEntry.tag = "Cached"
    /\ run.mode.tag = "UpgradeOutdated"
    /\ run.mode.ext = AskedUpgrade /\ AskedUpgrade # default_upgrade(run.edge)
    /\ makeCalls[Unwrap(Asked)] = 1

\* the task of slot s failed while it stored a secondary of a More response
SecondaryFailed(s) ==
    /\ calls[s].pc = "failed" /\ calls[s].err = "Cache"
    /\ calls[s].resp.tag = "More" /\ calls[s].idx <= calls[s].resp.n

\* C36: a task that fails while it stores a secondary of a More response
\* fails with the error Cache at that secondary: the step leaves the cache as
\* it is, so the secondaries written before stay; the task has written only
\* those, has no result, has not called mark_absent for the request key, and
\* takes no further step, so the primary and the other secondaries are never
\* written by it.
C36_SecondaryFailureStops ==
    [][\A s \in Slots :
        /\ (calls[s].pc = "sec" /\ calls'[s].pc # "sec" /\ calls'[s].idx = calls[s].idx) =>
              /\ SecondaryFailed(s)'
              /\ cache' = cache
              /\ calls'[s].writes = calls[s].idx - 1
              /\ ~calls'[s].marked
              /\ calls'[s].result = Missing
        /\ SecondaryFailed(s) => calls'[s] = calls[s]]_vars

C36_Witness ==
    \E s \in Slots :
        /\ SecondaryFailed(s) /\ calls[s].kind = "refresh"
        /\ calls[s].resp.n = 2 /\ calls[s].idx = 2 /\ calls[s].writes = 1
        /\ \E k \in SecKeys : cache[k].tag # "Missing"
        /\ cache[ReqKey(calls[s].req)].tag = "Missing"

\* the pages the stream has handed to process_request so far, in order, are
\* the consecutive pages from the requested one on
ConsecutivePages(processed, first) ==
    \A i \in 1..Len(processed) : processed[i] = first + i - 1

\* C37: paginate itself processes the requested page, and a failed lookup of
\* it is returned by paginate, which then builds no stream; the stream hands
\* the following page to process_request only once its current request has
\* resolved to a page; the pages processed are consecutive, none twice; and
\* next_request is the request one page after the current one.
C37_StrictlySequential ==
    [][/\ (run.stage = "start" /\ run'.stage # "start") =>
              /\ run'.processed = <<run'.first>>
              /\ run'.current.page = run'.first
              /\ IF run'.current.state = "failed"
                 THEN run'.stage = "refused" /\ run'.yielded = "Cache" /\ run'.emitted = <<>>
                 ELSE run'.stage = "streaming"
       /\ (run.stage # "start" /\ run'.processed # run.processed) =>
              /\ run.stage = "streaming" /\ run.current.state = "ready"
              /\ run'.processed = Append(run.processed, run.current.page + 1)
              /\ run'.current.page = run.current.page + 1
       /\ run.stage = "refused" => run' = run
       /\ run'.stage = "streaming" =>
              /\ ConsecutivePages(run'.processed, run'.first)
              /\ run'.next_request = IF run'.current.page < LastPage
                                     THEN Some(run'.current.page + 1) ELSE None
              /\ \A page \in PageNumbers : makeCalls'[page] <= 1]_vars

C37_Witness ==
    /\ run.op = "paginate" /\ run.stage = "streaming"
    /\ run.first = 0 /\ run.processed = <<0, 1, 2>>
    /\ Len(run.emitted) = 2 /\ run.current.state = "pending"
    /\ run.next_request = None

\* C38: no run of UpgradeMode::new on one of the seven edges ends in
\* ConsistencyAssumptionViolated: an object whose edge has no request for it
\* is on an edge whose default is Some(None), and the one edge without a
\* default, PartialLevel -> Level, has a request for every object.
C38_NoConsistencyViolation ==
    /\ run.mode.err # "ConsistencyAssumptionViolated"
    /\ Asked = None => default_upgrade(run.edge) = Some(None)
    /\ default_upgrade(run.edge) = None =>
            /\ run.edge = "PartialLevel->Level"
            /\ Asked = Some(LevelRequest(run.from.level_id))

\* a level whose creator has no account id went through the user edge: no
\* request, the default is taken
C38_Witness ==
    /\ Upgraded
    /\ run.edge = "Level user"
    /\ run.from.base.creator # None
    /\ Unwrap(run.from.base.creator).account_id = None
    /\ Asked = None
    /\ run.mode.tag = "UpgradeCached" /\ run.mode.err = "none"

\* C39 (as stated): a u8 converted to a GameVersion and back is the u8 it was,
\* 10 going through Unknown; and a GameVersion with any major and minor of a
\* u8 is converted to major * 10 + minor without overflow, and converting
\* that back gives the GameVersion it was.
C39_VersionRoundTrip ==
    /\ (run.dir = "u8" /\ run.steps >= 1 /\ run.v0 = 10) => run.g = Unknown
    /\ (run.dir = "u8" /\ run.steps = 2) => ~run.panicked /\ run.v = run.v0
    /\ (run.dir = "version" /\ run.steps >= 1) =>
            /\ ~run.panicked
            /\ run.g0.tag = "Version" => run.v = run.g0.major * 10 + run.g0.minor
    /\ (run.dir = "version" /\ run.steps = 2) => run.g = run.g0

\* the half of C39 that starts from a u8
VersionFromU8RoundTrip ==
    /\ (run.dir = "u8" /\ run.steps >= 1 /\ run.v0 = 10) => run.g = Unknown
    /\ (run.dir = "u8" /\ run.steps = 2) => ~run.panicked /\ run.v = run.v0

\* C40 (as stated): level_password returns Ok for every string, the empty one
\* included: NoCopy for "0", FreeCopy for any other string of length 1, and
\* for every other string PasswordCopy of the string without its first
\* character.
C40_PasswordAlwaysOk ==
    run.stage = "parsed" =>
        /\ run.result.tag = "Ok"
        /\ run.result.password =
                IF run.encrypted = <<"0">> THEN NoCopy
                ELSE IF len(run.encrypted) = 1 THEN FreeCopy
                ELSE PasswordCopy(SubSeq(run.encrypted, 2, Len(run.encrypted)))

\* the cases of C40 for the strings that are not empty
PasswordOfNonEmpty ==
    (run.stage = "parsed" /\ run.encrypted # <<>>) =>
        /\ run.result.tag = "Ok"
        /\ run.result.password =
                IF run.encrypted = <<"0">> THEN NoCopy
                ELSE IF len(run.encrypted) = 1 THEN FreeCopy
                ELSE PasswordCopy(SubSeq(run.encrypted, 2, Len(run.encrypted)))

====
